---- MODULE Spec2Model ----
(***************************************************************************)
(* Health aggregation, result cache and host registry of the multi-host    *)
(* health checker server:                                                   *)
(*   healthManager.js  (src/unnamed/part_000)  HealthCheckManager           *)
(*   config.js         (src/unnamed/part_001)  ConfigManager                *)
(*   server.js         (src/README-SCRIPTS.md) the /api/hosts handlers      *)
(***************************************************************************)
EXTENDS Integers, Sequences, FiniteSets, TLC

(* ------------------------------------------------------------------ *)
(* Bounds of the model                                                 *)
(* ------------------------------------------------------------------ *)
MaxHosts == 2

MaxChecks == 1

MaxTime == 30000

MaxCycles == 1

MaxRegistry == 2

\* Stream connections
MaxSubs == 2

\* sendHealthUpdate calls of one connection that await their aggregation
MaxInflight == 2

\* res.write calls counted per connection
MaxWrites == 2

(* ------------------------------------------------------------------ *)
(* Program constants                                                   *)
(* ------------------------------------------------------------------ *)
cacheTimeout == 30000

DefaultPort == 8095

(* ------------------------------------------------------------------ *)
(* Strings of the program.  An id and a cache key are sequences of     *)
(* tokens, so that concatenation and startsWith are computed as the    *)
(* code computes them.                                                 *)
(* ------------------------------------------------------------------ *)
Statuses == {"Healthy", "Degraded", "Unhealthy", "Unknown"}

CheckStatuses == {"Healthy", "Unhealthy", "Unknown"}

EndpointAll == "/api/health/all"

StartsWith(s, p) ==
  /\ Len(p) <= Len(s)
  /\ \A i \in 1..Len(p) : s[i] = p[i]

CacheKey(id, endpoint) == id \o <<"-", endpoint>>

KeyPrefix(hostId) == hostId \o <<"-">>

(* ------------------------------------------------------------------ *)
(* Host reports (the JSON a probe answers with)                        *)
(* ------------------------------------------------------------------ *)
RECURSIVE CountOf(_, _)
CountOf(cs, st) ==
  IF cs = <<>> THEN 0
  ELSE (IF Head(cs).status = st THEN 1 ELSE 0) + CountOf(Tail(cs), st)

MkCheck(name, st) == [service_name |-> name, status |-> st]

MkReport(overall, cs) ==
  [ overall_status  |-> overall,
    total_checks    |-> Len(cs),
    healthy_count   |-> CountOf(cs, "Healthy"),
    unhealthy_count |-> CountOf(cs, "Unhealthy"),
    degraded_count  |-> CountOf(cs, "Degraded"),
    unknown_count   |-> CountOf(cs, "Unknown"),
    checks          |-> cs ]

ServiceNames == <<"svc1", "svc2", "svc3">>

CheckLists ==
  UNION { { [i \in 1..n |-> MkCheck(<<ServiceNames[i]>>, f[i])] :
            f \in [1..n -> CheckStatuses] } : n \in 0..MaxChecks }

\* A report that calls itself Healthy lists no Unhealthy check (it may list
\* Unknown ones, as the sample reports of services/api.ts do).
HostReports ==
  { r \in { MkReport(o, cs) : o \in Statuses, cs \in CheckLists } :
      r.overall_status = "Healthy" => r.unhealthy_count = 0 }

NoData == MkReport("none", <<>>)

(* What one probe (subprocess or HTTP GET) ends with:                  *)
(*   "report" exit 0 / 2xx with a report object                        *)
(*   "null"   exit 0 / 2xx with the JSON value null                    *)
(*   "error"  non-zero exit, unparsable output, spawn error, network   *)
(*            error, timeout or non-2xx answer                         *)
Responses ==
  { [kind |-> "report", data |-> r] : r \in HostReports }
    \cup { [kind |-> "null", data |-> NoData], [kind |-> "error", data |-> NoData] }

(* ------------------------------------------------------------------ *)
(* Hosts                                                               *)
(* ------------------------------------------------------------------ *)
IsLocal(host) == host.type = "local" \/ host.host = "localhost"

\* The host of loadDefaultHosts, and a remote host as POST /api/hosts adds it.
\* The remote id starts with the local one, as 'gpu-2' starts with 'gpu'.
LocalHost ==
  [ id |-> <<"localhost">>, name |-> "localhost", host |-> "localhost", port |-> DefaultPort,
    type |-> "local", enabled |-> TRUE ]

RemoteHost ==
  [ id |-> <<"localhost", "-", "2">>, name |-> "agent", host |-> "10.0.0.5", port |-> 9999,
    type |-> "agent", enabled |-> TRUE ]

(* ------------------------------------------------------------------ *)
(* Settled outcome of one host's task in Promise.allSettled            *)
(* ------------------------------------------------------------------ *)
\* synthetic and cachedAge record how the outcome came about: the catch branch
\* of executeRemoteHealthCheck, and the age of the cache entry that was returned
\* (-1 when a probe was issued).
Fulfilled(resp, synthetic) ==
  [ status |-> "fulfilled", isNull |-> resp.kind = "null", data |-> resp.data,
    synthetic |-> synthetic, cachedAge |-> -1 ]

Rejected ==
  [ status |-> "rejected", isNull |-> FALSE, data |-> NoData, synthetic |-> FALSE,
    cachedAge |-> -1 ]

Pending ==
  [ status |-> "pending", isNull |-> FALSE, data |-> NoData, synthetic |-> FALSE,
    cachedAge |-> -1 ]

\* The failure report with the counts but without the Connection check.
SyntheticFailureNoCheck(host) ==
  [ overall_status  |-> "Unhealthy",
    total_checks    |-> 1,
    healthy_count   |-> 0,
    unhealthy_count |-> 1,
    degraded_count  |-> 0,
    unknown_count   |-> 0,
    checks          |-> << >> ]

SyntheticFailure(host) ==
  [ overall_status  |-> "Unhealthy",
    total_checks    |-> 1,
    healthy_count   |-> 0,
    unhealthy_count |-> 1,
    degraded_count  |-> 0,
    unknown_count   |-> 0,
    checks          |-> << MkCheck(<<host.name, " Connection">>, "Unhealthy") >> ]

LocalSettled(resp) ==
  IF resp.kind = "error" THEN Rejected ELSE Fulfilled(resp, FALSE)

RemoteSettled(host, resp) ==
  IF resp.kind = "error"
  THEN Fulfilled([kind |-> "report", data |-> SyntheticFailure(host)], TRUE)
  ELSE Fulfilled(resp, FALSE)

Settled(host, resp) ==
  IF IsLocal(host) THEN LocalSettled(resp) ELSE RemoteSettled(host, resp)

(* ------------------------------------------------------------------ *)
(* combineHealthResults                                                *)
(* ------------------------------------------------------------------ *)
\* The tagging without host_type.
TagCheckUntyped(host, check) ==
  [ service_name |-> <<host.name, ": ">> \o check.service_name,
    status       |-> check.status,
    host_id      |-> host.id,
    host_name    |-> host.name,
    host_type    |-> "undefined" ]

TagCheck(host, check) ==
  [ service_name |-> <<host.name, ": ">> \o check.service_name,
    status       |-> check.status,
    host_id      |-> host.id,
    host_name    |-> host.name,
    host_type    |-> host.type ]

ConnectionEntry(host) ==
  [ service_name |-> <<host.name, ": Connection">>,
    status       |-> "Unhealthy",
    host_id      |-> host.id,
    host_name    |-> host.name,
    host_type    |-> host.type ]

TagAllButLast(host, cs) == [j \in 1..(Len(cs) - 1) |-> TagCheck(host, cs[j])]

TagAll(host, cs) == [j \in 1..Len(cs) |-> TagCheck(host, cs[j])]

NextOverallNoPrecedence(overallStatus, dataStatus) ==
  IF dataStatus = "Unhealthy" THEN "Unhealthy"
  ELSE IF dataStatus = "Degraded" THEN "Degraded"
  ELSE overallStatus

NextOverall(overallStatus, dataStatus) ==
  IF dataStatus = "Unhealthy" THEN "Unhealthy"
  ELSE IF dataStatus = "Degraded" /\ overallStatus # "Unhealthy" THEN "Degraded"
  ELSE overallStatus

InitialAccUnknown ==
  [ threw |-> FALSE, combinedChecks |-> <<>>, totalHealthy |-> 0, totalUnhealthy |-> 0,
    totalDegraded |-> 0, totalUnknown |-> 0, overallStatus |-> "Unknown" ]

InitialAcc ==
  [ threw |-> FALSE, combinedChecks |-> <<>>, totalHealthy |-> 0, totalUnhealthy |-> 0,
    totalDegraded |-> 0, totalUnknown |-> 0, overallStatus |-> "Healthy" ]

\* The loop of a Promise.all-style combination: a rejected outcome ends it.
CombineStepRejectAborts(acc, result, host) ==
  IF acc.threw THEN acc
  ELSE IF result.status = "fulfilled" THEN
    IF result.isNull THEN [acc EXCEPT !.threw = TRUE]
    ELSE
      [ acc EXCEPT
          !.combinedChecks = @ \o TagAll(host, result.data.checks),
          !.totalHealthy   = @ + result.data.healthy_count,
          !.totalUnhealthy = @ + result.data.unhealthy_count,
          !.totalDegraded  = @ + result.data.degraded_count,
          !.totalUnknown   = @ + result.data.unknown_count,
          !.overallStatus  = NextOverall(@, result.data.overall_status) ]
  ELSE [acc EXCEPT !.threw = TRUE]

CombineStep(acc, result, host) ==
  IF acc.threw THEN acc
  ELSE IF result.status = "fulfilled" THEN
    IF result.isNull THEN [acc EXCEPT !.threw = TRUE]
    ELSE
      [ acc EXCEPT
          !.combinedChecks = @ \o TagAll(host, result.data.checks),
          !.totalHealthy   = @ + result.data.healthy_count,
          !.totalUnhealthy = @ + result.data.unhealthy_count,
          !.totalDegraded  = @ + result.data.degraded_count,
          !.totalUnknown   = @ + result.data.unknown_count,
          !.overallStatus  = NextOverall(@, result.data.overall_status) ]
  ELSE
    [ acc EXCEPT
        !.combinedChecks = Append(@, ConnectionEntry(host)),
        !.totalUnhealthy = @ + 1,
        !.overallStatus  = "Unhealthy" ]

RECURSIVE CombineFold(_, _, _, _)
CombineFold(results, hosts, i, acc) ==
  IF i > Len(results) THEN acc
  ELSE CombineFold(results, hosts, i + 1, CombineStep(acc, results[i], hosts[i]))

FirstWithId(hosts, id) ==
  CHOOSE i \in 1..Len(hosts) :
    /\ hosts[i].id = id
    /\ \A j \in 1..(i - 1) : hosts[j].id # id

HostStatus(results, hosts, host) ==
  IF results[FirstWithId(hosts, host.id)].status = "fulfilled" THEN "online" ELSE "offline"

\* The summary listed from the last host to the first.
HostSummaryReversed(results, hosts) ==
  [ i \in 1..Len(hosts) |->
      LET h == hosts[Len(hosts) + 1 - i] IN
      [ id |-> h.id, name |-> h.name, host |-> h.host, port |-> h.port,
        type |-> h.type, status |-> HostStatus(results, hosts, h) ] ]

HostSummary(results, hosts) ==
  [ i \in 1..Len(hosts) |->
      [ id |-> hosts[i].id, name |-> hosts[i].name, host |-> hosts[i].host,
        port |-> hosts[i].port, type |-> hosts[i].type,
        status |-> HostStatus(results, hosts, hosts[i]) ] ]

NoReport ==
  [ kind |-> "none", overall_status |-> "none", total_checks |-> 0, healthy_count |-> 0,
    unhealthy_count |-> 0, degraded_count |-> 0, unknown_count |-> 0,
    checks |-> <<>>, hosts |-> <<>> ]

Threw == [NoReport EXCEPT !.kind = "threw"]

CombineHealthResults(results, hosts) ==
  LET acc == CombineFold(results, hosts, 1, InitialAcc) IN
  IF acc.threw THEN Threw
  ELSE
    [ kind            |-> "report",
      overall_status  |-> acc.overallStatus,
      total_checks    |-> Len(acc.combinedChecks),
      healthy_count   |-> acc.totalHealthy,
      unhealthy_count |-> acc.totalUnhealthy,
      degraded_count  |-> acc.totalDegraded,
      unknown_count   |-> acc.totalUnknown,
      checks          |-> acc.combinedChecks,
      hosts           |-> HostSummary(results, hosts) ]

(* ------------------------------------------------------------------ *)
(* Result cache: cache.get / cache.set / clearCache                    *)
(* ------------------------------------------------------------------ *)
EmptyCache == [k \in {} |-> 0]

CacheHitInclusive(c, key, t) ==
  /\ key \in DOMAIN c
  /\ t - c[key].timestamp <= cacheTimeout

CacheHit(c, key, t) ==
  /\ key \in DOMAIN c
  /\ t - c[key].timestamp < cacheTimeout

\* A set that keeps the entry a key already has.
CacheSetKeepsFirst(c, key, resp, t) ==
  [ k \in DOMAIN c \cup {key} |->
      IF k \in DOMAIN c THEN c[k]
      ELSE [isNull |-> resp.kind = "null", data |-> resp.data, timestamp |-> t] ]

CacheSet(c, key, resp, t) ==
  [ k \in DOMAIN c \cup {key} |->
      IF k = key
      THEN [isNull |-> resp.kind = "null", data |-> resp.data, timestamp |-> t]
      ELSE c[k] ]

FromCache(c, key, t) ==
  [ status |-> "fulfilled", isNull |-> c[key].isNull, data |-> c[key].data,
    synthetic |-> FALSE, cachedAge |-> t - c[key].timestamp ]

NoHostId == <<>>

ClearCacheExactKey(c, hostId) ==
  IF hostId # NoHostId
  THEN [ k \in { x \in DOMAIN c : x # hostId } |-> c[k] ]
  ELSE EmptyCache

ClearCache(c, hostId) ==
  IF hostId # NoHostId
  THEN [ k \in { x \in DOMAIN c : ~StartsWith(x, KeyPrefix(hostId)) } |-> c[k] ]
  ELSE EmptyCache

(* ------------------------------------------------------------------ *)
(* Host registry: ConfigManager                                        *)
(* ------------------------------------------------------------------ *)
Undefined == "undefined"

DefaultHosts == << LocalHost >>

\* getEnabledHosts returns the host objects themselves, not copies: an entry of
\* its result is the object's fields h and ref, the object's place in
\* this.hosts (0 once removeHost has taken it out).
Refs(reg) == [i \in 1..Len(reg) |-> [ref |-> i, h |-> reg[i]]]

IsEnabled(e) == e.h.enabled

\* The listing without the filter on enabled.
GetEnabledHostsUnfiltered(reg) == Refs(reg)

GetEnabledHosts(reg) == SelectSeq(Refs(reg), IsEnabled)

HostsOf(entries) == [i \in 1..Len(entries) |-> entries[i].h]

\* findIndex / find by id: the first match, 0 for -1 / undefined
FindIndex(reg, id) ==
  IF \E i \in 1..Len(reg) : reg[i].id = id
  THEN CHOOSE i \in 1..Len(reg) : reg[i].id = id /\ \A j \in 1..(i - 1) : reg[j].id # id
  ELSE 0

NewHost(hostConfig, t) ==
  [ id      |-> IF hostConfig.id # Undefined THEN hostConfig.id
                ELSE <<"dynamic", "-", ToString(t)>>,
    name    |-> hostConfig.name,
    host    |-> hostConfig.host,
    port    |-> IF hostConfig.port # 0 THEN hostConfig.port ELSE DefaultPort,
    type    |-> IF hostConfig.type # Undefined THEN hostConfig.type ELSE "dynamic",
    enabled |-> hostConfig.enabled # FALSE ]

AddHost(reg, hostConfig, t) == Append(reg, NewHost(hostConfig, t))

RemoveAt(reg, index) == SubSeq(reg, 1, index - 1) \o SubSeq(reg, index + 1, Len(reg))

\* removeHost without the index !== -1 test: splice(-1, 1) takes the last host.
RemoveHostSpliceLast(reg, id) ==
  LET index == IF FindIndex(reg, id) # 0 THEN FindIndex(reg, id) ELSE Len(reg) IN
  [ found |-> index # 0, index |-> index,
    hosts |-> IF index # 0 THEN RemoveAt(reg, index) ELSE reg ]

\* removeHost: found tells the removed host from null, hosts is this.hosts
\* afterwards.
RemoveHost(reg, id) ==
  LET index == FindIndex(reg, id) IN
  IF index # 0 THEN [found |-> TRUE, index |-> index, hosts |-> RemoveAt(reg, index)]
  ELSE [found |-> FALSE, index |-> 0, hosts |-> reg]

\* Object.assign(host, updates)
Assign(host, updates) ==
  [ f \in DOMAIN host |-> IF f \in DOMAIN updates THEN updates[f] ELSE host[f] ]

\* updateHost: found tells the updated host from null.
UpdateHost(reg, id, updates) ==
  LET index == FindIndex(reg, id) IN
  IF index # 0
  THEN [found |-> TRUE, index |-> index, hosts |-> [reg EXCEPT ![index] = Assign(@, updates)]]
  ELSE [found |-> FALSE, index |-> 0, hosts |-> reg]

\* What a call in flight sees of updateHost and removeHost through the objects
\* it holds.
SeenUpdate(entries, index, updates) ==
  [ i \in 1..Len(entries) |->
      IF entries[i].ref = index THEN [entries[i] EXCEPT !.h = Assign(@, updates)]
      ELSE entries[i] ]

SeenRemove(entries, index) ==
  [ i \in 1..Len(entries) |->
      IF entries[i].ref = index THEN [entries[i] EXCEPT !.ref = 0]
      ELSE IF entries[i].ref > index THEN [entries[i] EXCEPT !.ref = @ - 1]
      ELSE entries[i] ]

(* ------------------------------------------------------------------ *)
(* Requests the model issues                                           *)
(* ------------------------------------------------------------------ *)
HealthyReport == MkReport("Healthy", << MkCheck(<<"svc1">>, "Healthy") >>)

ProbeAnswers ==
  { [kind |-> "report", data |-> HealthyReport],
    [kind |-> "null", data |-> NoData],
    [kind |-> "error", data |-> NoData] }

PostBodies ==
  { [ id |-> <<"localhost", "-", "2">>, name |-> "agent", host |-> "10.0.0.5", port |-> 9999,
      type |-> "agent", enabled |-> TRUE ] }

Disable == [enabled |-> FALSE]

Readdress == [port |-> DefaultPort]

PutBodies == { Disable, Readdress }

RequestIds == { <<"localhost">>, <<"localhost", "-", "2">> }

TimeSteps == { cacheTimeout - 1, cacheTimeout }

(* ------------------------------------------------------------------ *)
(* State                                                               *)
(* ------------------------------------------------------------------ *)
VARIABLES
  registry,    \* ConfigManager.hosts
  cache,       \* HealthCheckManager.cache
  now,         \* Date.now()
  cycles,      \* the aggregation calls that wait for probes
  returned,    \* what the aggregation call that returned in this step returned
  response,    \* what the /api/hosts handler that ran in this step answered
  aggHosts,    \* one aggregation on an empty cache: the enabled hosts
  aggResp,     \* ... what each host's probe ends with
  aggReport,   \* ... the unified report (NoReport before the call returns)
  loading,     \* ConfigManager.loadHosts: "csv" while it awaits loadHostsFromCSV
  subs,        \* the connections of /api/health/stream and /api/logs/:service/stream
  logCall,     \* one getServiceLogs call: its arguments and what its sources do
  logResult,   \* ... what the call returned or threw (NoLogResult before)
  mockRuns,    \* getMockServiceLogs: its arguments and what its calls returned
  searchCall,  \* one POST /api/logs/:service/search: the request and the log sources
  searchResult,\* ... the response (NoSearchResult before)
  gpuCall,     \* one getGpuDetails call: what each host's GPU probe ends with
  gpuResult,   \* ... the array it returned (NoGpuResult before)
  healthStream,\* one health stream: its sendHealthUpdate calls, told apart
  levelCall,   \* one extractLogLevel call: the line and the level returned
  hook         \* one mounted useHealthData hook

mainVars == <<registry, cache, now, cycles, returned, response>>

aggVars == <<aggHosts, aggResp, aggReport>>

pureVars == <<mockRuns, searchCall, searchResult, gpuCall, gpuResult,
                 healthStream, levelCall, hook>>

otherVars == <<loading, subs, logCall, logResult,
               mockRuns, searchCall, searchResult, gpuCall, gpuResult,
                 healthStream, levelCall, hook>>

vars == <<registry, cache, now, cycles, returned, response,
          aggHosts, aggResp, aggReport, loading, subs, logCall, logResult,
          mockRuns, searchCall, searchResult, gpuCall, gpuResult,
                 healthStream, levelCall, hook>>

CycleIds == 1..MaxCycles

SubIds == 1..MaxSubs

\* One connection: kind "none" until the request arrives; timer is the
\* setInterval handle being live; inflight counts the sendHealthUpdate calls
\* that await getAllHealthChecks; proc is the log subprocess; writes counts the
\* res.write calls, and late tells that one of them was made after the client
\* had gone away.
NoSub ==
  [ kind |-> "none", connected |-> FALSE, timer |-> FALSE, inflight |-> 0,
    proc |-> "none", writes |-> 0, late |-> FALSE ]

NoLogCall == [ service |-> "", source |-> "", docker |-> "", file |-> "" ]

NoLogResult == [ kind |-> "none", sources |-> <<>>, attempts |-> <<>>, errors |-> <<>> ]

Idle ==
  [ active |-> FALSE, endpoint |-> "", snap |-> <<>>, results |-> <<>>, keys |-> <<>>,
    startedAt |-> 0, del |-> {}, mut |-> {} ]

NoReturn == [ rep |-> NoReport, endpoint |-> "", results |-> <<>>, startedAt |-> 0, del |-> {} ]

NoResponse == [ op |-> "", id |-> NoHostId, code |-> 0, cleared |-> FALSE ]

MainIdle ==
  /\ registry = DefaultHosts
  /\ cache = EmptyCache
  /\ now = 0
  /\ cycles = [c \in CycleIds |-> Idle]
  /\ returned = NoReturn
  /\ response = NoResponse

AggIdle ==
  /\ aggHosts = <<>>
  /\ aggResp = <<>>
  /\ aggReport = NoReport

NoMockRuns == [ service |-> "", lines |-> 0, runs |-> <<>> ]

NoSearchCall ==
  [ service |-> "", query |-> [present |-> FALSE, text |-> <<>>], regex |-> FALSE,
    caseSensitive |-> FALSE, docker |-> "", file |-> "", logs |-> <<>> ]

NoSearchResult ==
  [ code |-> 0, total_matches |-> 0, results |-> <<>>, retrieved |-> <<>>, reads |-> <<>> ]

NoGpuCall == <<>>

NoGpuResult == [ kind |-> "none", gpus |-> <<>> ]

\* started counts the sendHealthUpdate calls made on the stream, pending are
\* the calls that await getAllHealthChecks, written the calls in the order of
\* their res.write.
NoStream == [ started |-> 0, pending |-> {}, written |-> <<>> ]

NoLevelCall == [ line |-> <<>>, level |-> "" ]

\* The hook before it is mounted.  healthData is 0 for null, else the number
\* of the report object held; captured is the healthData that the callbacks of
\* the effect in force closed over; pending are the fetches that await the
\* API, timeouts the setTimeout calls not yet run, timer the time since
\* setInterval (or its last tick); objects and fetches count the report objects
\* received and the fetches started; cause and sinceAuto, kept for the
\* properties, tell what started the last fetch and the time since the last
\* fetch that was not asked for through refreshData.
NoHook ==
  [ mounted |-> FALSE, refreshInterval |-> 0, healthData |-> 0, captured |-> 0,
    isLoading |-> TRUE, isRefreshing |-> FALSE, objects |-> 0, fetches |-> 0,
    pending |-> {}, timeouts |-> {}, timer |-> 0, cause |-> "", sinceAuto |-> 0 ]

PureIdle ==
  /\ mockRuns = NoMockRuns
  /\ searchCall = NoSearchCall
  /\ searchResult = NoSearchResult
  /\ gpuCall = NoGpuCall
  /\ gpuResult = NoGpuResult
  /\ healthStream = NoStream
  /\ levelCall = NoLevelCall
  /\ hook = NoHook

OtherIdle ==
  /\ loading = "done"
  /\ subs = [s \in SubIds |-> NoSub]
  /\ logCall = NoLogCall
  /\ logResult = NoLogResult
  /\ PureIdle

Init == MainIdle /\ AggIdle /\ OtherIdle

(* ------------------------------------------------------------------ *)
(* getAllHealthChecks / getCategoryHealthChecks                        *)
(* ------------------------------------------------------------------ *)
NoKey == <<>>

\* The synchronous part of one host's task: a local host spawns the probe, a
\* remote host returns a fresh cache entry or else sends the GET.
FirstOutcome(c, host, endpoint, t) ==
  IF IsLocal(host) THEN Pending
  ELSE IF CacheHit(c, CacheKey(host.id, endpoint), t)
       THEN FromCache(c, CacheKey(host.id, endpoint), t)
       ELSE Pending

ProbeKey(host, endpoint) == IF IsLocal(host) THEN NoKey ELSE CacheKey(host.id, endpoint)

AllSettledDone(results) == \A i \in 1..Len(results) : results[i].status # "pending"

\* startedAt, del and mut are kept with a call for the properties below: when
\* it was made, the id (if any) whose DELETE succeeded in the step before it,
\* and the ids whose add, update or remove succeeded while it was in flight.
Return(results, snap, endpoint, startedAt, del) ==
  [ rep |-> CombineHealthResults(results, HostsOf(snap)), endpoint |-> endpoint,
    results |-> results, startedAt |-> startedAt, del |-> del ]

Mutated(cy, id) == IF cy.active THEN [cy EXCEPT !.mut = @ \cup {id}] ELSE cy

JustDeleted ==
  IF response.op = "DELETE" /\ response.code = 200 THEN {response.id} ELSE {}

StartCycle(c, endpoint) ==
  /\ ~cycles[c].active
  /\ LET snap    == GetEnabledHosts(registry)
         results == [ i \in 1..Len(snap) |-> FirstOutcome(cache, snap[i].h, endpoint, now) ]
         keys    == [ i \in 1..Len(snap) |-> ProbeKey(snap[i].h, endpoint) ]
     IN
     IF AllSettledDone(results)
     THEN /\ returned' = Return(results, snap, endpoint, now, JustDeleted)
          /\ UNCHANGED cycles
     ELSE /\ cycles' = [ cycles EXCEPT ![c] =
                 [ active |-> TRUE, endpoint |-> endpoint, snap |-> snap,
                   results |-> results, keys |-> keys, startedAt |-> now,
                   del |-> JustDeleted, mut |-> {} ] ]
          /\ returned' = NoReturn
  /\ response' = NoResponse
  /\ UNCHANGED <<registry, cache, now, aggVars, otherVars>>

GetAllHealthChecks(c) == StartCycle(c, EndpointAll)

\* One probe ends: the close event of the subprocess, or the answer, error or
\* timeout of the GET.  The call returns in the same step when it was the last.
ProbeSettled(cy, i, resp) ==
  IF cy.keys[i] = NoKey THEN LocalSettled(resp) ELSE RemoteSettled(cy.snap[i].h, resp)

\* The same with a catch branch that stores the failure report it returns.
ProbeReturnCachesFailure(c, i, resp) ==
  LET cy == cycles[c] IN
  /\ cy.active
  /\ i \in 1..Len(cy.results)
  /\ cy.results[i].status = "pending"
  /\ LET results == [cy.results EXCEPT ![i] = ProbeSettled(cy, i, resp)] IN
     /\ cache' = IF cy.keys[i] = NoKey THEN cache
                 ELSE IF resp.kind = "error"
                      THEN CacheSet(cache, cy.keys[i],
                                    [kind |-> "report", data |-> SyntheticFailure(cy.snap[i].h)],
                                    now)
                      ELSE CacheSet(cache, cy.keys[i], resp, now)
     /\ IF AllSettledDone(results)
        THEN /\ returned' = Return(results, cy.snap, cy.endpoint, cy.startedAt, cy.del)
             /\ cycles' = [cycles EXCEPT ![c] = Idle]
        ELSE /\ returned' = NoReturn
             /\ cycles' = [cycles EXCEPT ![c].results = results]
  /\ response' = NoResponse
  /\ UNCHANGED <<registry, now, aggVars, otherVars>>

ProbeReturn(c, i, resp) ==
  LET cy == cycles[c] IN
  /\ cy.active
  /\ i \in 1..Len(cy.results)
  /\ cy.results[i].status = "pending"
  /\ LET results == [cy.results EXCEPT ![i] = ProbeSettled(cy, i, resp)] IN
     /\ cache' = IF cy.keys[i] # NoKey /\ resp.kind # "error"
                 THEN CacheSet(cache, cy.keys[i], resp, now)
                 ELSE cache
     /\ IF AllSettledDone(results)
        THEN /\ returned' = Return(results, cy.snap, cy.endpoint, cy.startedAt, cy.del)
             /\ cycles' = [cycles EXCEPT ![c] = Idle]
        ELSE /\ returned' = NoReturn
             /\ cycles' = [cycles EXCEPT ![c].results = results]
  /\ response' = NoResponse
  /\ UNCHANGED <<registry, now, aggVars, otherVars>>

Tick(d) ==
  /\ now + d <= MaxTime
  /\ now' = now + d
  /\ returned' = NoReturn
  /\ response' = NoResponse
  /\ UNCHANGED <<registry, cache, cycles, aggVars, otherVars>>

(* ------------------------------------------------------------------ *)
(* POST / PUT / DELETE /api/hosts                                      *)
(* ------------------------------------------------------------------ *)
PostHost(body) ==
  /\ Len(registry) < MaxRegistry
  /\ registry' = AddHost(registry, body, now)
  /\ cache' = ClearCache(cache, NoHostId)
  /\ response' = [ op |-> "POST", id |-> registry'[Len(registry')].id, code |-> 201,
                   cleared |-> cache' # cache ]
  /\ cycles' = [ c \in CycleIds |->
                   Mutated([cycles[c] EXCEPT !.del = @ \ {registry'[Len(registry')].id}],
                           registry'[Len(registry')].id) ]
  /\ returned' = NoReturn
  /\ UNCHANGED <<now, aggVars, otherVars>>

PutHost(id, updates) ==
  LET updated == UpdateHost(registry, id, updates) IN
  /\ IF updated.found
     THEN /\ registry' = updated.hosts
          /\ cache' = ClearCache(cache, id)
          /\ response' = [ op |-> "PUT", id |-> id, code |-> 200, cleared |-> cache' # cache ]
          /\ cycles' = [ c \in CycleIds |->
                           Mutated([cycles[c] EXCEPT
                                      !.snap = SeenUpdate(@, updated.index, updates)], id) ]
     ELSE /\ response' = [ op |-> "PUT", id |-> id, code |-> 404, cleared |-> FALSE ]
          /\ UNCHANGED <<registry, cache, cycles>>
  /\ returned' = NoReturn
  /\ UNCHANGED <<now, aggVars, otherVars>>

DeleteHost(id) ==
  LET removed == RemoveHost(registry, id) IN
  /\ IF removed.found
     THEN /\ registry' = removed.hosts
          /\ cache' = ClearCache(cache, id)
          /\ response' = [ op |-> "DELETE", id |-> id, code |-> 200, cleared |-> cache' # cache ]
          /\ cycles' = [ c \in CycleIds |->
                           Mutated([cycles[c] EXCEPT !.snap = SeenRemove(@, removed.index)],
                                   id) ]
     ELSE /\ response' = [ op |-> "DELETE", id |-> id, code |-> 404, cleared |-> FALSE ]
          /\ UNCHANGED <<registry, cache, cycles>>
  /\ returned' = NoReturn
  /\ UNCHANGED <<now, aggVars, otherVars>>

Next ==
  \/ \E c \in CycleIds : GetAllHealthChecks(c)
  \/ \E c \in CycleIds, i \in 1..MaxRegistry, resp \in ProbeAnswers : ProbeReturn(c, i, resp)
  \/ \E d \in TimeSteps : Tick(d)
  \/ \E body \in PostBodies : PostHost(body)
  \/ \E id \in RequestIds, updates \in PutBodies : PutHost(id, updates)
  \/ \E id \in RequestIds : DeleteHost(id)

Spec == Init /\ [][Next]_vars

(* ------------------------------------------------------------------ *)
(* The cache alone: aggregation calls and the clock over every         *)
(* registry of local and remote hosts                                  *)
(* ------------------------------------------------------------------ *)
InitRegistries ==
  UNION { [1..n -> {LocalHost, RemoteHost}] : n \in 1..MaxRegistry }

InitCache ==
  /\ registry \in InitRegistries
  /\ cache = EmptyCache
  /\ now = 0
  /\ cycles = [c \in CycleIds |-> Idle]
  /\ returned = NoReturn
  /\ response = NoResponse
  /\ AggIdle
  /\ OtherIdle

NextCache ==
  \/ \E c \in CycleIds : GetAllHealthChecks(c)
  \/ \E c \in CycleIds, i \in 1..MaxRegistry, resp \in ProbeAnswers : ProbeReturn(c, i, resp)
  \/ \E d \in TimeSteps : Tick(d)

SpecCache == InitCache /\ [][NextCache]_vars

\* Calls that overlap: one more call than CycleIds has may be in flight, on a
\* registry with one remote host.
RaceIds == 1..(MaxCycles + 1)

InitRace ==
  /\ registry \in { <<RemoteHost>>, <<LocalHost, RemoteHost>> }
  /\ cache = EmptyCache
  /\ now = 0
  /\ cycles = [c \in RaceIds |-> Idle]
  /\ returned = NoReturn
  /\ response = NoResponse
  /\ AggIdle
  /\ OtherIdle

NextRace ==
  \/ \E c \in RaceIds : GetAllHealthChecks(c)
  \/ \E c \in RaceIds, i \in 1..MaxRegistry, resp \in ProbeAnswers : ProbeReturn(c, i, resp)
  \/ \E d \in TimeSteps : Tick(d)

SpecRace == InitRace /\ [][NextRace]_vars

\* The same calls under the scheduling the code relies on: a GET in flight
\* ends by its answer, an error or the 10 s axios timeout, and the local
\* subprocess is taken to exit, so a pending probe of a call eventually settles.
ProbeEnds(c) == \E i \in 1..MaxRegistry, resp \in ProbeAnswers : ProbeReturn(c, i, resp)

SpecLive == SpecCache /\ \A c \in CycleIds : WF_vars(ProbeEnds(c))

(* ------------------------------------------------------------------ *)
(* The host API with aggregation calls in flight, at one instant       *)
(* ------------------------------------------------------------------ *)
NextHosts ==
  \/ GetAllHealthChecks(1)
  \/ \E i \in 1..MaxRegistry, resp \in ProbeAnswers : ProbeReturn(1, i, resp)
  \/ \E body \in PostBodies : PostHost(body)
  \/ \E id \in RequestIds : PutHost(id, Disable)
  \/ \E id \in RequestIds : DeleteHost(id)

SpecHosts == Init /\ [][NextHosts]_vars

(* ------------------------------------------------------------------ *)
(* Startup: the constructor calls loadHosts without awaiting it         *)
(* ------------------------------------------------------------------ *)
\* MONITOR_HOSTS=10.0.0.7
EnvHosts ==
  << [ id |-> <<"env", "-", "0">>, name |-> "10.0.0.7", host |-> "10.0.0.7",
       port |-> DefaultPort, type |-> "env", enabled |-> TRUE ] >>

\* The rows of hosts.csv as loadHostsFromCSV builds them, before its filter.
CsvRows ==
  << [ id |-> <<"gpu1">>, name |-> "gpu1", host |-> "10.0.0.8", port |-> DefaultPort,
       type |-> "gpu", enabled |-> TRUE ],
     [ id |-> <<"gpu2">>, name |-> "gpu2", host |-> "10.0.0.9", port |-> DefaultPort,
       type |-> "gpu", enabled |-> FALSE ] >>

HostEnabled(host) == host.enabled

\* What loadHostsFromCSV settles with: the enabled rows, or an error.
CsvOutcomes ==
  { [kind |-> "hosts", hosts |-> SelectSeq(CsvRows, HostEnabled)],
    [kind |-> "hosts", hosts |-> <<>>],
    [kind |-> "error", hosts |-> <<>>] }

HostSources == {"env", "csv", "default"}

\* The state when the constructor returns.  With MONITOR_HOSTS set, or without
\* hosts.csv, loadHosts has assigned this.hosts before its first await; with
\* hosts.csv it is suspended at the await and this.hosts is still [].
LoadHosts(source) ==
  /\ registry = (IF source = "env" THEN EnvHosts
                 ELSE IF source = "csv" THEN <<>> ELSE DefaultHosts)
  /\ loading = (IF source = "csv" THEN "csv" ELSE "done")

\* Objects that this.hosts no longer holds after it was assigned anew.
SeenReload(entries) == [ i \in 1..Len(entries) |-> [entries[i] EXCEPT !.ref = 0] ]

\* loadHosts resumes: this.hosts = await loadHostsFromCSV(...), or
\* loadDefaultHosts() in the catch branch.
LoadHostsResumes(outcome) ==
  /\ loading = "csv"
  /\ loading' = "done"
  /\ registry' = (IF outcome.kind = "hosts" THEN outcome.hosts ELSE DefaultHosts)
  /\ cycles' = [ c \in CycleIds |-> [cycles[c] EXCEPT !.snap = SeenReload(@)] ]
  /\ returned' = NoReturn
  /\ response' = NoResponse
  /\ UNCHANGED <<cache, now, aggVars, subs, logCall, logResult, pureVars>>

InitBoot ==
  /\ \E source \in HostSources : LoadHosts(source)
  /\ cache = EmptyCache
  /\ now = 0
  /\ cycles = [c \in CycleIds |-> Idle]
  /\ returned = NoReturn
  /\ response = NoResponse
  /\ AggIdle
  /\ subs = [s \in SubIds |-> NoSub]
  /\ logCall = NoLogCall
  /\ logResult = NoLogResult
  /\ PureIdle

BootRequestIds == RequestIds \cup { EnvHosts[1].id, CsvRows[1].id }

NextBoot ==
  \/ \E outcome \in CsvOutcomes : LoadHostsResumes(outcome)
  \/ GetAllHealthChecks(1)
  \/ \E i \in 1..MaxRegistry, resp \in ProbeAnswers : ProbeReturn(1, i, resp)
  \/ \E body \in PostBodies : PostHost(body)
  \/ \E id \in BootRequestIds : PutHost(id, Disable)
  \/ \E id \in BootRequestIds : DeleteHost(id)

SpecBoot == InitBoot /\ [][NextBoot]_vars

(* ------------------------------------------------------------------ *)
(* GET /api/health/stream and GET /api/logs/:service/stream            *)
(* ------------------------------------------------------------------ *)
\* res.write on a connection
Written(sub) == [sub EXCEPT !.writes = @ + 1, !.late = @ \/ ~sub.connected]

\* The handler of /api/health/stream without the initial sendHealthUpdate().
OpenedWithoutInitial(sub) ==
  [sub EXCEPT !.kind = "health", !.connected = TRUE, !.inflight = 0, !.timer = TRUE]

\* The handler of /api/health/stream: sendHealthUpdate() runs up to its await,
\* setInterval, req.on('close').
Opened(sub) ==
  [sub EXCEPT !.kind = "health", !.connected = TRUE, !.inflight = 1, !.timer = TRUE]

\* A close handler that does not clear the interval.
ClosedKeepsTimer(sub) ==
  [sub EXCEPT !.connected = FALSE,
              !.proc = IF sub.kind = "log" /\ @ = "running" THEN "killed" ELSE @]

\* A close handler that leaves the log process alone.
ClosedLeavesProcess(sub) ==
  [sub EXCEPT !.connected = FALSE, !.timer = FALSE]

\* The req.on('close') handlers: clearInterval(interval) on a health stream,
\* logProcess.kill() unless killed on a log stream.
Closed(sub) ==
  [sub EXCEPT !.connected = FALSE,
              !.timer = FALSE,
              !.proc = IF sub.kind = "log" /\ @ = "running" THEN "killed" ELSE @]

\* A close handler that clears the timers of all connections.
AfterCloseClearsAll(all, s) ==
  [ t \in DOMAIN all |-> IF t = s THEN Closed(all[t]) ELSE [all[t] EXCEPT !.timer = FALSE] ]

\* The client of connection s goes away: its own handler runs, on its own
\* interval and logProcess.
AfterClose(all, s) == [all EXCEPT ![s] = Closed(@)]

StreamFrame ==
  UNCHANGED <<registry, cache, now, cycles, returned, response, aggVars,
              loading, logCall, logResult, pureVars>>

ConnectHealth(s) ==
  /\ subs[s].kind = "none"
  /\ subs' = [subs EXCEPT ![s] = Opened(@)]
  /\ StreamFrame

\* The interval elapses: sendHealthUpdate() runs up to its await.
TimerFires(s) ==
  /\ subs[s].timer
  /\ subs[s].inflight < MaxInflight
  /\ subs' = [subs EXCEPT ![s].inflight = @ + 1]
  /\ StreamFrame

\* getAllHealthChecks settles for one sendHealthUpdate: the data event when it
\* resolved, the error event of the catch branch when it threw.
AggregationSettles(s) ==
  /\ subs[s].inflight > 0
  /\ subs[s].writes < MaxWrites
  /\ subs' = [subs EXCEPT ![s] = Written([@ EXCEPT !.inflight = @ - 1])]
  /\ StreamFrame

\* The handler of /api/logs/:service/stream: streamServiceLogs returns the
\* spawned process, or null (then the error event is written and res.end()).
ConnectLog(s, spawned) ==
  /\ subs[s].kind = "none"
  /\ subs' = [subs EXCEPT ![s] =
       IF spawned
       THEN [@ EXCEPT !.kind = "log", !.connected = TRUE, !.proc = "running"]
       ELSE [Written([@ EXCEPT !.kind = "log", !.connected = TRUE])
               EXCEPT !.connected = FALSE] ]
  /\ StreamFrame

\* stdout / stderr 'data' of the log process
LogData(s) ==
  /\ subs[s].proc \in {"running", "killed"}
  /\ subs[s].writes < MaxWrites
  /\ subs' = [subs EXCEPT ![s] = Written(@)]
  /\ StreamFrame

\* 'close' of the log process: the close event is written and res.end().
LogProcessCloses(s) ==
  /\ subs[s].proc \in {"running", "killed"}
  /\ subs[s].writes < MaxWrites
  /\ subs' = [subs EXCEPT ![s] = [Written(@) EXCEPT !.proc = "closed", !.connected = FALSE]]
  /\ StreamFrame

Disconnect(s) ==
  /\ subs[s].connected
  /\ subs' = AfterClose(subs, s)
  /\ StreamFrame

NextStream ==
  \/ \E s \in SubIds : ConnectHealth(s)
  \/ \E s \in SubIds : TimerFires(s)
  \/ \E s \in SubIds : AggregationSettles(s)
  \/ \E s \in SubIds, spawned \in BOOLEAN : ConnectLog(s, spawned)
  \/ \E s \in SubIds : LogData(s)
  \/ \E s \in SubIds : LogProcessCloses(s)
  \/ \E s \in SubIds : Disconnect(s)

SpecStream == Init /\ [][NextStream]_vars

(* ------------------------------------------------------------------ *)
(* One health stream with its sendHealthUpdate calls told apart        *)
(* ------------------------------------------------------------------ *)
MaxTicks == 4

UpdateFrame ==
  UNCHANGED <<registry, cache, now, cycles, returned, response, aggVars,
              loading, logCall, logResult, mockRuns, searchCall, searchResult,
              gpuCall, gpuResult, levelCall, hook>>

\* sendHealthUpdate() up to its await: the call is numbered in the order of
\* the calls.
Sent(st) ==
  [st EXCEPT !.started = @ + 1, !.pending = @ \cup {st.started + 1}]

\* The await of call n resumes and res.write runs.
Resumed(st, n) ==
  [st EXCEPT !.pending = @ \ {n}, !.written = Append(@, n)]

\* The handler of /api/health/stream on connection 1.
HealthStream ==
  /\ subs[1].kind = "none"
  /\ subs' = [subs EXCEPT ![1] = Opened(@)]
  /\ healthStream' = Sent(healthStream)
  /\ UpdateFrame

\* The interval elapses, whether or not earlier calls still wait.
SendHealthUpdate ==
  /\ subs[1].timer
  /\ healthStream.started < MaxTicks
  /\ subs' = [subs EXCEPT ![1].inflight = @ + 1]
  /\ healthStream' = Sent(healthStream)
  /\ UpdateFrame

\* getAllHealthChecks settles for call n.  Each call waits for its own probes
\* (a subprocess without a timeout, GETs, or nothing at all when the cache
\* answers), so the calls in flight settle in any order.
SendHealthUpdateResumes(n) ==
  /\ n \in healthStream.pending
  /\ subs' = [subs EXCEPT ![1] = Written([@ EXCEPT !.inflight = @ - 1])]
  /\ healthStream' = Resumed(healthStream, n)
  /\ UpdateFrame

HealthStreamClose ==
  /\ subs[1].connected
  /\ subs' = AfterClose(subs, 1)
  /\ UNCHANGED healthStream
  /\ UpdateFrame

NextUpdates ==
  \/ HealthStream
  \/ SendHealthUpdate
  \/ \E n \in 1..MaxTicks : SendHealthUpdateResumes(n)
  \/ HealthStreamClose

SpecUpdates == Init /\ [][NextUpdates]_vars

(* ------------------------------------------------------------------ *)
(* LogManager.getServiceLogs                                           *)
(* ------------------------------------------------------------------ *)
supportedServices == {"etcd", "redis", "manager", "agent"}

MockServices == {"manager", "agent"}

\* service.toLowerCase() on the service names the model passes
ToLowerCase(service) ==
  IF service = "Manager" THEN "manager"
  ELSE IF service = "ETCD" THEN "etcd"
  ELSE service

\* getContainerName: "" for null
GetContainerName(service) ==
  IF ToLowerCase(service) = "etcd" THEN "backendai-backendai-half-etcd-1"
  ELSE IF ToLowerCase(service) = "redis" THEN "caster-redis-1"
  ELSE ""

\* getLogPath: the default path of the service, "" for null
GetLogPath(service) ==
  IF ToLowerCase(service) = "etcd" THEN "/var/log/etcd/etcd.log"
  ELSE IF ToLowerCase(service) = "redis" THEN "/var/log/redis/redis-server.log"
  ELSE IF ToLowerCase(service) = "manager" THEN "/var/log/backend.ai/manager.log"
  ELSE IF ToLowerCase(service) = "agent" THEN "/var/log/backend.ai/agent.log"
  ELSE ""

\* A read that resolved: the source object it resolved with (lines: whether
\* any log line came with it).
ReadResult(source, outcome) == [ source |-> source, lines |-> outcome = "logs" ]

MockServiceLogs == [ source |-> "mock", lines |-> TRUE ]

TryDocker(source) == source = "auto" \/ source = "docker"

\* The file branch taken whatever the Docker branch gave.
TryFileAlways(source, results) == source = "auto" \/ source = "file"

TryFile(source, results) == (source = "auto" /\ Len(results) = 0) \/ source = "file"

\* The state of the call after the Docker branch, then after the file branch:
\* results, the errors pushed (one per failed source, named by its source),
\* and the reads that were started.
AfterDocker(call) ==
  IF ~TryDocker(call.source) THEN [results |-> <<>>, errors |-> <<>>, attempts |-> <<>>]
  ELSE IF GetContainerName(call.service) = ""
       THEN [results |-> <<>>, errors |-> <<"docker">>, attempts |-> <<>>]
  ELSE IF call.docker = "error"
       THEN [results |-> <<>>, errors |-> <<"docker">>, attempts |-> <<"docker">>]
  ELSE [results |-> <<ReadResult("docker", call.docker)>>, errors |-> <<>>,
        attempts |-> <<"docker">>]

\* The file branch with a catch that records nothing.
AfterFileSilent(call, st) ==
  IF ~TryFile(call.source, st.results) THEN st
  ELSE IF GetLogPath(call.service) = "" THEN [st EXCEPT !.errors = Append(@, "file")]
  ELSE IF call.file = "error"
       THEN [st EXCEPT !.attempts = Append(@, "file")]
  ELSE [st EXCEPT !.results = Append(@, ReadResult("file", call.file)),
                  !.attempts = Append(@, "file")]

AfterFile(call, st) ==
  IF ~TryFile(call.source, st.results) THEN st
  ELSE IF GetLogPath(call.service) = "" THEN [st EXCEPT !.errors = Append(@, "file")]
  ELSE IF call.file = "error"
       THEN [st EXCEPT !.errors = Append(@, "file"), !.attempts = Append(@, "file")]
  ELSE [st EXCEPT !.results = Append(@, ReadResult("file", call.file)),
                  !.attempts = Append(@, "file")]

AfterMock(call, st) ==
  IF Len(st.results) = 0 /\ ToLowerCase(call.service) \in MockServices
  THEN [st EXCEPT !.results = Append(@, MockServiceLogs)]
  ELSE st

\* kind: "unsupported" for the Unsupported-service error, "nologs" for the
\* No-logs-available error, "returned" otherwise.
GetServiceLogs(call) ==
  IF ToLowerCase(call.service) \notin supportedServices
  THEN [kind |-> "unsupported", sources |-> <<>>, attempts |-> <<>>, errors |-> <<>>]
  ELSE LET st == AfterMock(call, AfterFile(call, AfterDocker(call))) IN
       [ kind     |-> IF Len(st.results) = 0 THEN "nologs" ELSE "returned",
         sources  |-> st.results,
         attempts |-> st.attempts,
         errors   |-> st.errors ]

LogServices == {"etcd", "ETCD", "redis", "manager", "Manager", "agent", "nginx"}

LogSources == {"auto", "file", "docker"}

\* What a read does: resolves with log lines, resolves with none, or rejects.
ReadOutcomes == {"logs", "empty", "error"}

InitLogs ==
  /\ MainIdle
  /\ AggIdle
  /\ loading = "done"
  /\ subs = [s \in SubIds |-> NoSub]
  /\ logCall \in [service : LogServices, source : LogSources,
                  docker : ReadOutcomes, file : ReadOutcomes]
  /\ logResult = NoLogResult
  /\ PureIdle

CallGetServiceLogs ==
  /\ logResult = NoLogResult
  /\ logResult' = GetServiceLogs(logCall)
  /\ UNCHANGED <<mainVars, aggVars, loading, subs, logCall, pureVars>>

NextLogs == CallGetServiceLogs

SpecLogs == InitLogs /\ [][NextLogs]_vars

(* ------------------------------------------------------------------ *)
(* LogManager.getMockServiceLogs                                       *)
(* ------------------------------------------------------------------ *)
MaxMockLines == 3

logLevels == <<"INFO", "DEBUG", "WARN", "ERROR">>

\* messages.length of getServiceMessages(service)
MessageCount(service) == IF ToLowerCase(service) \in MockServices THEN 15 ELSE 3

Min(a, b) == IF a < b THEN a ELSE b

MockLength(service, lines) == Min(lines, MessageCount(service) * 3)

ActualLevel(i, level) ==
  IF i % 10 = 0 THEN "ERROR" ELSE IF i % 7 = 0 THEN "WARN" ELSE level

\* The text after the service prefix: the fixed message of the service at
\* messageIndex, and the suffix the level adds.
MockMessage(service, i, actualLevel) ==
  << ToLowerCase(service), i % MessageCount(service),
     IF actualLevel = "ERROR" THEN " - Connection timeout"
     ELSE IF actualLevel = "WARN" THEN " - High resource usage detected"
     ELSE "" >>

MockLine(service, i, level) ==
  [ line    |-> i + 1,
    level   |-> ActualLevel(i, level),
    message |-> MockMessage(service, i, ActualLevel(i, level)) ]

\* random[k]: the index Math.floor(Math.random() * 4) gave in iteration k - 1
GetMockServiceLogs(service, lines, random) ==
  [ source |-> "mock",
    logs   |-> [ k \in 1..MockLength(service, lines) |->
                   MockLine(service, k - 1, logLevels[random[k]]) ] ]

RandomDraws(n) == [1..n -> 1..Len(logLevels)]

StreamsIdle ==
  /\ loading = "done"
  /\ subs = [s \in SubIds |-> NoSub]
  /\ logCall = NoLogCall
  /\ logResult = NoLogResult

InitMock ==
  /\ MainIdle
  /\ AggIdle
  /\ StreamsIdle
  /\ mockRuns \in [ service : {"manager", "Manager", "agent"},
                     lines : 0..MaxMockLines, runs : {<<>>} ]
  /\ searchCall = NoSearchCall
  /\ searchResult = NoSearchResult
  /\ gpuCall = NoGpuCall
  /\ gpuResult = NoGpuResult
  /\ healthStream = NoStream
  /\ levelCall = NoLevelCall
  /\ hook = NoHook

\* One more call with the same arguments.
CallGetMockServiceLogs ==
  /\ Len(mockRuns.runs) < 2
  /\ \E random \in RandomDraws(MockLength(mockRuns.service, mockRuns.lines)) :
       mockRuns' = [mockRuns EXCEPT !.runs =
                      Append(@, GetMockServiceLogs(mockRuns.service, mockRuns.lines, random))]
  /\ UNCHANGED <<mainVars, aggVars, loading, subs, logCall, logResult,
                 searchCall, searchResult, gpuCall, gpuResult,
                 healthStream, levelCall, hook>>

NextMock == CallGetMockServiceLogs

SpecMock == InitMock /\ [][NextMock]_vars

(* ------------------------------------------------------------------ *)
(* POST /api/logs/:service/search and LogManager.searchLogs            *)
(* ------------------------------------------------------------------ *)
MaxLines == 2

\* Texts are sequences of characters.
LowerChar(ch) == IF ch = "A" THEN "a" ELSE IF ch = "B" THEN "b" ELSE ch

\* String.prototype.toLowerCase
TextToLowerCase(text) == [k \in 1..Len(text) |-> LowerChar(text[k])]

\* text has pattern at offset off (0-based), compared with or without case
HasAt(text, pattern, off, ignoreCase) ==
  /\ off + Len(pattern) <= Len(text)
  /\ \A k \in 1..Len(pattern) :
       IF ignoreCase THEN LowerChar(text[off + k]) = LowerChar(pattern[k])
       ELSE text[off + k] = pattern[k]

\* String.prototype.includes
Includes(text, pattern) == \E off \in 0..Len(text) : HasAt(text, pattern, off, FALSE)

\* new RegExp(query, 'g' or 'gi') for a query without metacharacters
NewRegExp(query, caseSensitive) ==
  [ source |-> query, ignoreCase |-> ~caseSensitive, lastIndex |-> 0 ]

\* RegExp.prototype.test of a global expression: the search starts at
\* lastIndex; a match leaves lastIndex after it, a failure resets it to 0.
RegExpTest(re, text) ==
  LET starts == { off \in re.lastIndex..Len(text) : HasAt(text, re.source, off, re.ignoreCase) } IN
  IF starts = {}
  THEN [ matches |-> FALSE, re |-> [re EXCEPT !.lastIndex = 0] ]
  ELSE LET off == CHOOSE o \in starts : \A q \in starts : o <= q IN
       [ matches |-> TRUE, re |-> [re EXCEPT !.lastIndex = off + Len(re.source)] ]

\* The text tested as it is, upper case included.
SearchTextAsIs(caseSensitive, message) == message

SearchText(caseSensitive, message) ==
  IF caseSensitive THEN message ELSE TextToLowerCase(message)

\* searchPattern when regex is false
SearchPattern(caseSensitive, query) ==
  IF caseSensitive THEN query ELSE TextToLowerCase(query)

\* source.logs of a Docker or file source object: the lines read, if any
LogsOf(src, call) ==
  IF src.lines
  THEN [ k \in 1..Len(call.logs) |->
           [ line |-> k, message |-> call.logs[k], source |-> src.source ] ]
  ELSE <<>>

RECURSIVE AllLogs(_, _)
AllLogs(sources, call) ==
  IF sources = <<>> THEN <<>>
  ELSE LogsOf(Head(sources), call) \o AllLogs(Tail(sources), call)

\* The two forEach loops: st carries searchResults and the one RegExp object.
SearchStep(call, st, log) ==
  LET searchText == SearchText(call.caseSensitive, log.message) IN
  IF call.regex
  THEN LET t == RegExpTest(st.re, searchText) IN
       [ re |-> t.re,
         results |-> IF t.matches THEN Append(st.results, log) ELSE st.results ]
  ELSE [ st EXCEPT !.results =
           IF Includes(searchText, SearchPattern(call.caseSensitive, call.query.text))
           THEN Append(@, log) ELSE @ ]

RECURSIVE SearchFold(_, _, _)
SearchFold(call, st, logs) ==
  IF logs = <<>> THEN st
  ELSE SearchFold(call, SearchStep(call, st, Head(logs)), Tail(logs))

SearchLogs(call) ==
  LET logs == GetServiceLogs([ service |-> call.service, source |-> "auto",
                               docker |-> call.docker, file |-> call.file ]) IN
  IF logs.kind # "returned"
  THEN [ kind |-> "threw", results |-> <<>>, retrieved |-> <<>>, reads |-> logs.attempts ]
  ELSE LET all == AllLogs(logs.sources, call)
           st  == SearchFold(call,
                             [ re |-> NewRegExp(call.query.text, call.caseSensitive),
                               results |-> <<>> ],
                             all)
       IN [ kind |-> "returned", results |-> st.results, retrieved |-> all,
            reads |-> logs.attempts ]

\* !query, with a test that lets the empty string through
QueryMissingOnlyAbsent(query) == ~query.present

\* !query
QueryMissing(query) == ~query.present \/ query.text = <<>>

\* The route handler: reads are the source reads that were started, retrieved
\* the lines searchLogs went through.
SearchRoute(call) ==
  IF QueryMissing(call.query)
  THEN [ code |-> 400, total_matches |-> 0, results |-> <<>>, retrieved |-> <<>>,
         reads |-> <<>> ]
  ELSE LET r == SearchLogs(call) IN
       IF r.kind = "threw"
       THEN [ code |-> 500, total_matches |-> 0, results |-> <<>>, retrieved |-> <<>>,
              reads |-> r.reads ]
       ELSE [ code |-> 200, total_matches |-> Len(r.results), results |-> r.results,
              retrieved |-> r.retrieved, reads |-> r.reads ]

LogMessages == { <<"a", "b">>, <<"A", "B">>, <<"b", "a">>, <<"b">> }

LogLines == UNION { [1..n -> LogMessages] : n \in 1..MaxLines }

SearchQueries ==
  { [present |-> FALSE, text |-> <<>>], [present |-> TRUE, text |-> <<>>],
    [present |-> TRUE, text |-> <<"a">>], [present |-> TRUE, text |-> <<"B">>],
    [present |-> TRUE, text |-> <<"a", "b">>] }

InitSearch ==
  /\ MainIdle
  /\ AggIdle
  /\ StreamsIdle
  /\ mockRuns = NoMockRuns
  /\ searchCall \in [ service : {"etcd", "nginx"}, query : SearchQueries,
                       regex : BOOLEAN, caseSensitive : BOOLEAN,
                       docker : ReadOutcomes, file : ReadOutcomes, logs : LogLines ]
  /\ searchResult = NoSearchResult
  /\ gpuCall = NoGpuCall
  /\ gpuResult = NoGpuResult
  /\ healthStream = NoStream
  /\ levelCall = NoLevelCall
  /\ hook = NoHook

PostSearch ==
  /\ searchResult = NoSearchResult
  /\ searchResult' = SearchRoute(searchCall)
  /\ UNCHANGED <<mainVars, aggVars, loading, subs, logCall, logResult,
                 mockRuns, searchCall, gpuCall, gpuResult,
                 healthStream, levelCall, hook>>

NextSearch == PostSearch

SpecSearch == InitSearch /\ [][NextSearch]_vars

(* ------------------------------------------------------------------ *)
(* LogManager.extractLogLevel                                          *)
(* ------------------------------------------------------------------ *)
MaxWords == 2

UpperCase == <<"A", "B", "C", "D", "E", "F", "G", "H", "I", "J", "K", "L", "M", "N", "O", "P", "Q", "R", "S", "T", "U", "V", "W", "X", "Y", "Z">>

LowerCase == <<"a", "b", "c", "d", "e", "f", "g", "h", "i", "j", "k", "l", "m", "n", "o", "p", "q", "r", "s", "t", "u", "v", "w", "x", "y", "z">>

\* The characters \b takes for parts of a word: [A-Za-z0-9_]
WordChars ==
  { UpperCase[k] : k \in 1..26 } \cup { LowerCase[k] : k \in 1..26 }
    \cup {"0", "1", "2", "3", "4", "5", "6", "7", "8", "9", "_"}

IsWordChar(ch) == ch \in WordChars

\* What the i flag compares: the character's upper case
UpperOf == [ ch \in { LowerCase[k] : k \in 1..26 } |->
               UpperCase[CHOOSE k \in 1..26 : ch = LowerCase[k]] ]

Canonicalize(ch) == IF ch \in DOMAIN UpperOf THEN UpperOf[ch] ELSE ch

\* \b between the characters pos and pos + 1 of the line
IsWordBoundary(line, pos) ==
  (pos > 0 /\ IsWordChar(line[pos])) # (pos < Len(line) /\ IsWordChar(line[pos + 1]))

MatchesAt(line, word, off) ==
  /\ off + Len(word) <= Len(line)
  /\ \A k \in 1..Len(word) : Canonicalize(line[off + k]) = Canonicalize(word[k])

\* The alternatives of each expression, in the order of the array
levelPatterns ==
  << << <<"F", "A", "T", "A", "L">>, <<"C", "R", "I", "T", "I", "C", "A", "L">> >>,
     << <<"E", "R", "R", "O", "R">>, <<"E", "R", "R">> >>,
     << <<"W", "A", "R", "N">>, <<"W", "A", "R", "N", "I", "N", "G">> >>,
     << <<"I", "N", "F", "O">>, <<"I", "N", "F", "O", "R", "M", "A", "T", "I", "O", "N">> >>,
     << <<"D", "E", "B", "U", "G">>, <<"D", "B", "G">> >>,
     << <<"T", "R", "A", "C", "E">>, <<"T", "R", "C">> >> >>

levels == << "FATAL", "ERROR", "WARN", "INFO", "DEBUG", "TRACE" >>

\* The expression without its two \b
PatternTestAnywhere(alternatives, line) ==
  \E off \in 0..Len(line), a \in 1..Len(alternatives) :
    MatchesAt(line, alternatives[a], off)

\* /\b(A|B)\b/i.test(line)
PatternTest(alternatives, line) ==
  \E off \in 0..Len(line), a \in 1..Len(alternatives) :
    /\ IsWordBoundary(line, off)
    /\ MatchesAt(line, alternatives[a], off)
    /\ IsWordBoundary(line, off + Len(alternatives[a]))

\* The loop over levelPatterns from index i on (1-based), then the default
RECURSIVE LevelFrom(_, _)
LevelFrom(line, i) ==
  IF i > Len(levelPatterns) THEN "INFO"
  ELSE IF PatternTest(levelPatterns[i], line) THEN levels[i]
  ELSE LevelFrom(line, i + 1)

ExtractLogLevel(line) == LevelFrom(line, 1)

\* The lines the calls are made with: words joined by a blank or an underscore
LinePieces ==
  { <<"F", "A", "T", "A", "L">>,
    <<"c", "r", "i", "t", "i", "c", "a", "l">>,
    <<"E", "r", "r", "o", "r">>,
    <<"E", "R", "R">>,
    <<"w", "a", "r", "n">>,
    <<"W", "A", "R", "N", "I", "N", "G">>,
    <<"i", "n", "f", "o">>,
    <<"I", "n", "f", "o", "r", "m", "a", "t", "i", "o", "n">>,
    <<"D", "E", "B", "U", "G">>,
    <<"d", "b", "g">>,
    <<"T", "r", "a", "c", "e">>,
    <<"T", "R", "C">>,
    <<"e", "r", "r", "o", "r", "s">>,
    <<"o", "k">> }

LineJoints == { <<" ">>, <<"_">> }

RECURSIVE LinesOf(_)
LinesOf(n) ==
  IF n = 1 THEN LinePieces
  ELSE { l \o j \o w : l \in LinesOf(n - 1), j \in LineJoints, w \in LinePieces }

LevelLines == UNION { LinesOf(n) : n \in 1..MaxWords }

InitLevel ==
  /\ MainIdle
  /\ AggIdle
  /\ StreamsIdle
  /\ mockRuns = NoMockRuns
  /\ searchCall = NoSearchCall
  /\ searchResult = NoSearchResult
  /\ gpuCall = NoGpuCall
  /\ gpuResult = NoGpuResult
  /\ healthStream = NoStream
  /\ levelCall \in { [line |-> l, level |-> ""] : l \in LevelLines }
  /\ hook = NoHook

CallExtractLogLevel ==
  /\ levelCall.level = ""
  /\ levelCall' = [levelCall EXCEPT !.level = ExtractLogLevel(levelCall.line)]
  /\ UNCHANGED <<mainVars, aggVars, loading, subs, logCall, logResult, mockRuns,
                 searchCall, searchResult, gpuCall, gpuResult, healthStream, hook>>

NextLevel == CallExtractLogLevel

SpecLevel == InitLevel /\ [][NextLevel]_vars

(* ------------------------------------------------------------------ *)
(* useHealthData                                                       *)
(* ------------------------------------------------------------------ *)
MaxFetches == 4

\* The delay of the setTimeout in the updater of setHealthData
smoothDelay == 100

\* The refreshInterval arguments the hook is mounted with
RefreshIntervals == { 2 * smoothDelay, 3 * smoothDelay }

HookFrame ==
  UNCHANGED <<mainVars, aggVars, loading, subs, logCall, logResult, mockRuns,
              searchCall, searchResult, gpuCall, gpuResult, healthStream, levelCall>>

\* fetchHealthData(showRefreshing) up to its await, called through the
\* callback the effect in force holds
FetchHealthData(h, showRefreshing, cause) ==
  [ h EXCEPT !.isRefreshing = IF showRefreshing THEN TRUE ELSE @,
             !.isLoading = IF ~showRefreshing /\ h.captured = 0 THEN TRUE ELSE @,
             !.pending = @ \cup { [n |-> h.fetches + 1, showRefreshing |-> showRefreshing] },
             !.fetches = @ + 1,
             !.cause = cause,
             !.sinceAuto = IF cause = "refreshData" THEN @ ELSE 0 ]

\* The effect of lines 70-80 with its cleanup: clearInterval of the old
\* interval, fetchHealthData(false), setInterval.
RunEffect(h, cause) ==
  FetchHealthData([h EXCEPT !.captured = h.healthData, !.timer = 0], FALSE, cause)

\* A render after setHealthData took a new object: fetchHealthData is made
\* anew for its dependency healthData, and the effect, which depends on
\* fetchHealthData, runs again.  A hook that is no longer mounted renders
\* nothing.
Rendered(h) == IF h.mounted THEN RunEffect(h, "effect") ELSE h

\* fetchHealthData from its await on, for fetch f: the API layer always
\* resolves, with a new object (the response's data or a new mock report).
Resolved(h, f) ==
  LET data == h.objects + 1
      done == [ h EXCEPT !.objects = data, !.pending = @ \ {f},
                         !.isLoading = FALSE, !.isRefreshing = FALSE ]
  IN IF ~h.mounted THEN done
     ELSE IF h.healthData # 0 /\ f.showRefreshing
          THEN [ done EXCEPT !.timeouts = @ \cup { [data |-> data, left |-> smoothDelay] } ]
          ELSE Rendered([ done EXCEPT !.healthData = data ])

Mount(refreshInterval) ==
  /\ ~hook.mounted
  /\ hook.fetches = 0
  /\ hook' = RunEffect([hook EXCEPT !.mounted = TRUE, !.refreshInterval = refreshInterval],
                       "mount")
  /\ HookFrame

\* Time passes up to the next timer that is due, at most.
Advance(d) ==
  /\ hook.mounted
  /\ hook.timer + d <= hook.refreshInterval
  /\ \A t \in hook.timeouts : t.left >= d
  /\ hook' = [ hook EXCEPT !.timer = @ + d,
                           !.timeouts = { [t EXCEPT !.left = @ - d] : t \in hook.timeouts },
                           !.sinceAuto = IF @ + d > hook.refreshInterval
                                         THEN hook.refreshInterval ELSE @ + d ]
  /\ HookFrame

\* The interval of the effect in force ticks: fetchHealthData(true).
IntervalTicks ==
  /\ hook.mounted
  /\ hook.timer = hook.refreshInterval
  /\ hook.fetches < MaxFetches
  /\ hook' = FetchHealthData([hook EXCEPT !.timer = 0], TRUE, "interval")
  /\ HookFrame

\* refreshData(), called by the component
RefreshData ==
  /\ hook.mounted
  /\ hook.fetches < MaxFetches
  /\ hook' = FetchHealthData(hook, TRUE, "refreshData")
  /\ HookFrame

FetchResolves(f) ==
  /\ f \in hook.pending
  /\ Resolved(hook, f).fetches <= MaxFetches
  /\ hook' = Resolved(hook, f)
  /\ HookFrame

\* setTimeout(() => setHealthData(data), 100) runs.
TimeoutRuns(t) ==
  /\ t \in hook.timeouts
  /\ t.left = 0
  /\ hook.mounted => hook.fetches < MaxFetches
  /\ hook' = IF hook.mounted
             THEN Rendered([ hook EXCEPT !.timeouts = @ \ {t}, !.healthData = t.data ])
             ELSE [ hook EXCEPT !.timeouts = @ \ {t} ]
  /\ HookFrame

\* The component goes away: the cleanup clears the interval.
Unmount ==
  /\ hook.mounted
  /\ hook' = [ hook EXCEPT !.mounted = FALSE ]
  /\ HookFrame

NextHook ==
  \/ \E refreshInterval \in RefreshIntervals : Mount(refreshInterval)
  \/ Advance(smoothDelay)
  \/ IntervalTicks
  \/ RefreshData
  \/ \E f \in [n : 1..MaxFetches, showRefreshing : BOOLEAN] : FetchResolves(f)
  \/ \E t \in [data : 1..MaxFetches, left : {0, smoothDelay}] : TimeoutRuns(t)
  \/ Unmount

SpecHook == Init /\ [][NextHook]_vars

(* ------------------------------------------------------------------ *)
(* HealthCheckManager.getGpuDetails                                    *)
(* ------------------------------------------------------------------ *)
EndpointGpu == "/api/gpu/details"

GpuHost ==
  [ id |-> <<"gpu", "-", "1">>, name |-> "gpu-node", host |-> "10.0.0.7", port |-> 9999,
    type |-> "gpu", enabled |-> TRUE ]

\* An agent host whose name contains 'gpu'.
GpuNamedHost ==
  [ id |-> <<"rack", "-", "7">>, name |-> "rack7-gpu", host |-> "10.0.0.8", port |-> 9999,
    type |-> "agent", enabled |-> TRUE ]

\* host.name.includes('gpu') on the names the model uses
NameIncludesGpu(name) == name \in {"gpu-node", "rack7-gpu"}

IsGpuHost(e) == e.h.type = "gpu" \/ e.h.type = "local" \/ NameIncludesGpu(e.h.name)

\* getMockGpuDetails: an array of one GPU with id 0 (its utilisation figures
\* are left out)
MockGpuDetails(host) == << [id |-> 0, name |-> "NVIDIA GeForce RTX 4090"] >>

\* What the GET of /api/gpu/details ends with: an array of GPUs, a single GPU
\* object, null, or an error / timeout.  A GPU may come without an id.
GpuAnswers ==
  { [kind |-> "array", data |-> <<>>],
    [kind |-> "array", data |-> << [id |-> 0, name |-> "A100"] >>],
    [kind |-> "array", data |-> << [id |-> 1, name |-> "A100"], [name |-> "A100"] >>],
    [kind |-> "object", data |-> [id |-> 1, name |-> "A100"]],
    [kind |-> "object", data |-> [name |-> "A100"]],
    [kind |-> "null", data |-> <<>>],
    [kind |-> "error", data |-> <<>>] }

\* result.value.data of one host's task: executeRemoteHealthCheck returns the
\* fresh cache entry, the answer, or the failure report of its catch branch.
GpuData(c, host, resp, t) ==
  IF IsLocal(host) THEN [kind |-> "array", data |-> MockGpuDetails(host)]
  ELSE IF CacheHit(c, CacheKey(host.id, EndpointGpu), t)
       THEN LET e == c[CacheKey(host.id, EndpointGpu)] IN
            [kind |-> IF e.isNull THEN "null" ELSE e.kind, data |-> e.data]
  ELSE IF resp.kind = "error" THEN [kind |-> "object", data |-> SyntheticFailure(host)]
  ELSE resp

\* Array.isArray(data) ? data : [data]
AsArray(d) == IF d.kind = "array" THEN d.data ELSE << d.data >>

\* gpu.id || 0
GpuIdOrZero(gpu) == IF "id" \in DOMAIN gpu /\ gpu.id # 0 THEN gpu.id ELSE 0

\* The id without the host it belongs to.
GpuElementIdBare(host, gpu) == <<"gpu-", ToString(GpuIdOrZero(gpu))>>

\* `${host.id}-gpu-${gpu.id || 0}`
GpuElementId(host, gpu) == host.id \o <<"-gpu-", ToString(GpuIdOrZero(gpu))>>

\* The element pushed for one GPU; from is the place in the registry of the
\* host whose task gave it, kept for the properties below.
TagGpu(e, gpu) ==
  [ gpu |-> gpu, host_id |-> e.h.id, host_name |-> e.h.name,
    id |-> GpuElementId(e.h, gpu), from |-> e.ref ]

GpuElements(e, d) ==
  IF d.kind = "null" THEN <<>>
  ELSE [ k \in 1..Len(AsArray(d)) |-> TagGpu(e, AsArray(d)[k]) ]

RECURSIVE CombineGpuData(_, _)
CombineGpuData(gpuHosts, datas) ==
  IF gpuHosts = <<>> THEN <<>>
  ELSE GpuElements(Head(gpuHosts), Head(datas)) \o CombineGpuData(Tail(gpuHosts), Tail(datas))

GpuHosts(reg) == SelectSeq(GetEnabledHosts(reg), IsGpuHost)

GetGpuDetails(reg, resps, c, t) ==
  LET gpuHosts == GpuHosts(reg) IN
  [ kind |-> "returned",
    gpus |-> CombineGpuData(gpuHosts,
               [ i \in 1..Len(gpuHosts) |->
                   GpuData(c, gpuHosts[i].h, resps[gpuHosts[i].ref], t) ]) ]

\* The orders in which n GETs can be answered.
Orders(n) == { f \in [1..n -> 1..n] : \A i, j \in 1..n : f[i] = f[j] => i = j }

\* this.cache.set of the GETs that were sent and answered, in the order given
RECURSIVE GpuCacheAfter(_, _, _, _, _, _)
GpuCacheAfter(c0, c, gpuHosts, resps, order, t) ==
  IF order = <<>> THEN c
  ELSE LET e    == gpuHosts[Head(order)]
           resp == resps[e.ref]
           key  == CacheKey(e.h.id, EndpointGpu)
       IN GpuCacheAfter(c0,
            IF IsLocal(e.h) \/ CacheHit(c0, key, t) \/ resp.kind = "error"
            THEN c
            ELSE [ k \in DOMAIN c \cup {key} |->
                     IF k = key
                     THEN [isNull |-> resp.kind = "null", kind |-> resp.kind,
                           data |-> resp.data, timestamp |-> t]
                     ELSE c[k] ],
            gpuHosts, resps, Tail(order), t)

GpuHostPool == {LocalHost, RemoteHost, GpuHost, GpuNamedHost}

InitGpu ==
  /\ registry \in UNION { [1..n -> GpuHostPool] : n \in 1..MaxRegistry }
  /\ cache = EmptyCache
  /\ now = 0
  /\ cycles = [c \in CycleIds |-> Idle]
  /\ returned = NoReturn
  /\ response = NoResponse
  /\ AggIdle
  /\ StreamsIdle
  /\ mockRuns = NoMockRuns
  /\ searchCall = NoSearchCall
  /\ searchResult = NoSearchResult
  /\ gpuCall \in [1..Len(registry) -> GpuAnswers]
  /\ gpuResult = NoGpuResult
  /\ healthStream = NoStream
  /\ levelCall = NoLevelCall
  /\ hook = NoHook

CallGetGpuDetails ==
  /\ gpuResult = NoGpuResult
  /\ gpuResult' = GetGpuDetails(registry, gpuCall, cache, now)
  /\ \E order \in Orders(Len(GpuHosts(registry))) :
       cache' = GpuCacheAfter(cache, cache, GpuHosts(registry), gpuCall, order, now)
  /\ UNCHANGED <<registry, now, cycles, returned, response, aggVars, loading, subs,
                 logCall, logResult, mockRuns, searchCall, searchResult, gpuCall,
                 healthStream, levelCall, hook>>

NextGpu == CallGetGpuDetails

SpecGpu == InitGpu /\ [][NextGpu]_vars

(* ------------------------------------------------------------------ *)
(* One getAllHealthChecks call on an empty cache, for every list of    *)
(* enabled hosts and every combination of probe outcomes               *)
(* ------------------------------------------------------------------ *)
AggHostPool == {LocalHost, RemoteHost}

AllSettled(hosts, resps) == [i \in 1..Len(hosts) |-> Settled(hosts[i], resps[i])]

InitAgg ==
  /\ MainIdle
  /\ OtherIdle
  /\ \E n \in 0..MaxHosts :
       /\ aggHosts \in [1..n -> AggHostPool]
       /\ aggResp \in [1..n -> Responses]
  /\ aggReport = NoReport

AggGetAllHealthChecks ==
  /\ aggReport = NoReport
  /\ aggReport' = CombineHealthResults(AllSettled(aggHosts, aggResp), aggHosts)
  /\ UNCHANGED <<aggHosts, aggResp, mainVars, otherVars>>

NextAgg == AggGetAllHealthChecks

SpecAgg == InitAgg /\ [][NextAgg]_vars

(* ------------------------------------------------------------------ *)
(* The same call, over reports whose overall_status follows from their *)
(* checks: Unhealthy with an Unhealthy check, Healthy without          *)
(* ------------------------------------------------------------------ *)
StatusOf(cs) == IF CountOf(cs, "Unhealthy") > 0 THEN "Unhealthy" ELSE "Healthy"

ProbeResponses ==
  { [kind |-> "report", data |-> MkReport(StatusOf(cs), cs)] : cs \in CheckLists }
    \cup { [kind |-> "null", data |-> NoData], [kind |-> "error", data |-> NoData] }

InitProbes ==
  /\ MainIdle
  /\ OtherIdle
  /\ \E n \in 0..MaxHosts :
       /\ aggHosts \in [1..n -> AggHostPool]
       /\ aggResp \in [1..n -> ProbeResponses]
  /\ aggReport = NoReport

SpecProbes == InitProbes /\ [][NextAgg]_vars

(* ------------------------------------------------------------------ *)
(* The same call, over host reports that may count more checks than    *)
(* they list, as the sample report of services/api.ts does             *)
(* ------------------------------------------------------------------ *)
\* getMockHealthReport: counts 15 / 3 / 1 / 1 of 20, five checks listed
SampleReport ==
  [ overall_status  |-> "Degraded",
    total_checks    |-> 20,
    healthy_count   |-> 15,
    unhealthy_count |-> 3,
    degraded_count  |-> 1,
    unknown_count   |-> 1,
    checks          |-> << MkCheck(<<"PostgreSQL">>, "Healthy"),
                           MkCheck(<<"Redis">>, "Healthy"),
                           MkCheck(<<"Manager API">>, "Unhealthy"),
                           MkCheck(<<"NVIDIA GPU 0">>, "Healthy"),
                           MkCheck(<<"backend.ai-halfstack-prometheus-1">>, "Healthy") >> ]

SampleResponses == ProbeResponses \cup { [kind |-> "report", data |-> SampleReport] }

InitSample ==
  /\ MainIdle
  /\ OtherIdle
  /\ \E n \in 0..MaxHosts :
       /\ aggHosts \in [1..n -> AggHostPool]
       /\ aggResp \in [1..n -> SampleResponses]
  /\ aggReport = NoReport

SpecSample == InitSample /\ [][NextAgg]_vars

(* ================================================================== *)
(* Properties of one aggregation (SpecAgg)                             *)
(* ================================================================== *)
AggSettled == AllSettled(aggHosts, aggResp)

AggDone == aggReport.kind = "report"

AggIdx == 1..Len(aggHosts)

OutcomeUnhealthy(i) ==
  \/ AggSettled[i].status = "rejected"
  \/ AggSettled[i].status = "fulfilled" /\ AggSettled[i].data.overall_status = "Unhealthy"

OutcomeDegraded(i) ==
  AggSettled[i].status = "fulfilled" /\ AggSettled[i].data.overall_status = "Degraded"

PrecedenceStatus ==
  IF \E i \in AggIdx : OutcomeUnhealthy(i) THEN "Unhealthy"
  ELSE IF \E i \in AggIdx : OutcomeDegraded(i) THEN "Degraded"
  ELSE "Healthy"

\* C1: whenever combineHealthResults returns a unified report, its
\* overall_status is Unhealthy if some host's outcome is Unhealthy (its report
\* says Unhealthy or its probe was rejected), otherwise Degraded if some host's
\* report is Degraded, otherwise Healthy.
C1_OverallPrecedence == AggDone => aggReport.overall_status = PrecedenceStatus

\* An Unhealthy host listed before a Degraded one: the later Degraded report
\* must not lower the status.
C1_Witness ==
  /\ AggDone
  /\ Len(aggHosts) = 2
  /\ OutcomeUnhealthy(1)
  /\ OutcomeDegraded(2)
  /\ aggReport.overall_status = "Unhealthy"

\* C2: a remote host whose probe fails is marked offline in the hosts summary,
\* and a host is marked online only when its probe returned a real report.
C2_FailedRemoteOffline ==
  AggDone =>
    \A i \in AggIdx :
      /\ (~IsLocal(aggHosts[i]) /\ aggResp[i].kind = "error")
           => aggReport.hosts[i].status = "offline"
      /\ aggReport.hosts[i].status = "online" => aggResp[i].kind = "report"

\* Number of entries host i contributes: its report's probe results, or the one
\* synthetic entry of a failed probe.
Contribution(i) ==
  IF AggSettled[i].status = "rejected" THEN 1 ELSE Len(AggSettled[i].data.checks)

RECURSIVE Offset(_)
Offset(i) == IF i = 1 THEN 0 ELSE Offset(i - 1) + Contribution(i - 1)

TotalContribution == IF aggHosts = <<>> THEN 0 ELSE Offset(Len(aggHosts)) + Contribution(Len(aggHosts))

\* C3: the checks list of the unified report holds exactly one entry for each
\* probe result of each host's report, and exactly one synthetic entry for each
\* host whose probe failed, in host order: none dropped, none twice.
C3_OneEntryPerResult ==
  AggDone =>
    /\ Len(aggReport.checks) = TotalContribution
    /\ \A i \in AggIdx : \A j \in 1..Contribution(i) :
         LET e == aggReport.checks[Offset(i) + j] IN
         /\ e.host_id = aggHosts[i].id
         /\ IF AggSettled[i].status = "rejected"
            THEN e.status = "Unhealthy" /\ e.service_name = <<aggHosts[i].name, ": Connection">>
            ELSE /\ e.status = AggSettled[i].data.checks[j].status
                 /\ e.service_name =
                      <<aggHosts[i].name, ": ">> \o AggSettled[i].data.checks[j].service_name

\* Two hosts, one whose remote probe failed (one synthetic entry) and one that
\* reported a probe result.
C3_Witness ==
  /\ AggDone
  /\ Len(aggHosts) = 2
  /\ aggResp[1].kind = "error" /\ ~IsLocal(aggHosts[1])
  /\ aggResp[2].kind = "report" /\ Len(aggResp[2].data.checks) = MaxChecks
  /\ Len(aggReport.checks) = 1 + MaxChecks

AllReportsHealthy ==
  \A i \in AggIdx : aggResp[i].kind = "report" /\ aggResp[i].data.overall_status = "Healthy"

RECURSIVE SumHealthy(_)
SumHealthy(i) == IF i = 0 THEN 0 ELSE SumHealthy(i - 1) + aggResp[i].data.healthy_count

\* C4 as stated: if every enabled host's report is Healthy, the unified report
\* has overall_status = Healthy and healthy_count = total_checks.
C4_AllHealthyCountsEqual ==
  (AggDone /\ AllReportsHealthy) =>
    /\ aggReport.overall_status = "Healthy"
    /\ aggReport.healthy_count = aggReport.total_checks

\* C4 amended: if every enabled host's report is Healthy, the unified report
\* has overall_status = Healthy and healthy_count is the sum of the hosts'
\* reported healthy_count values; it equals total_checks when every host's
\* healthy_count equals the number of its checks.
C4_AllHealthyAmended ==
  (AggDone /\ AllReportsHealthy) =>
    /\ aggReport.overall_status = "Healthy"
    /\ aggReport.healthy_count = SumHealthy(Len(aggHosts))
    /\ (\A i \in AggIdx : aggResp[i].data.healthy_count = Len(aggResp[i].data.checks))
         => aggReport.healthy_count = aggReport.total_checks

\* Two Healthy hosts, one of which lists a check that is not Healthy.
C4_Witness ==
  /\ AggDone
  /\ AllReportsHealthy
  /\ Len(aggHosts) = 2
  /\ aggResp[1].data.healthy_count = Len(aggResp[1].data.checks)
  /\ aggResp[1].data.healthy_count > 0
  /\ aggResp[2].data.healthy_count < Len(aggResp[2].data.checks)
  /\ aggReport.healthy_count < aggReport.total_checks

FailedProbe(i) == aggResp[i].kind = "error"

Segment(i) == SubSeq(aggReport.checks, Offset(i) + 1, Offset(i) + Contribution(i))

\* C12: the failure of one host's probe never aborts the aggregation and never
\* alters the other hosts' contributions: a report is produced (unless some
\* probe answered a value that is no report), it lists every other host's
\* checks with the status and the name that host reported, and it lists one
\* Unhealthy entry for the failed host.
C12_FailureIsolated ==
  \A i \in AggIdx :
    (aggReport # NoReport /\ FailedProbe(i)) =>
      /\ (\A j \in AggIdx : aggResp[j].kind # "null") => AggDone
      /\ AggDone =>
           /\ Len(Segment(i)) = 1
           /\ Segment(i)[1].status = "Unhealthy"
           /\ Segment(i)[1].host_id = aggHosts[i].id
           /\ \A j \in AggIdx \ {i} :
                aggResp[j].kind = "report" =>
                  /\ Len(Segment(j)) = Len(aggResp[j].data.checks)
                  /\ \A k \in 1..Len(Segment(j)) :
                       /\ Segment(j)[k].status = aggResp[j].data.checks[k].status
                       /\ Segment(j)[k].service_name =
                            <<aggHosts[j].name, ": ">> \o aggResp[j].data.checks[k].service_name

\* A local probe that failed, listed before a host that reported a check.
C12_Witness ==
  /\ AggDone
  /\ Len(aggHosts) = 2
  /\ IsLocal(aggHosts[1]) /\ FailedProbe(1)
  /\ aggResp[2].kind = "report" /\ Len(aggResp[2].data.checks) = MaxChecks
  /\ Len(aggReport.checks) = 1 + MaxChecks

\* C13: an aggregation request always yields a unified report, never an
\* exception, for every combination of probe outcomes, a probe that answers
\* null included.
C13_AlwaysReport == aggReport # NoReport => aggReport.kind = "report"

\* C14: when a remote probe fails, executeRemoteHealthCheck returns (the task's
\* promise is fulfilled with) a report with overall_status Unhealthy,
\* total_checks 1, unhealthy_count 1, every other count 0, and exactly one
\* check, Unhealthy and named '<host name> Connection'.
C14_SyntheticReport ==
  \A i \in AggIdx :
    (~IsLocal(aggHosts[i]) /\ FailedProbe(i)) =>
      LET r == AggSettled[i] IN
      /\ r.status = "fulfilled"
      /\ ~r.isNull
      /\ r.data.overall_status = "Unhealthy"
      /\ r.data.total_checks = 1
      /\ r.data.unhealthy_count = 1
      /\ r.data.healthy_count = 0 /\ r.data.degraded_count = 0 /\ r.data.unknown_count = 0
      /\ Len(r.data.checks) = 1
      /\ r.data.checks[1].status = "Unhealthy"
      /\ r.data.checks[1].service_name = <<aggHosts[i].name, " Connection">>

\* An aggregation that combined the report of a failed remote probe.
C14_Witness ==
  /\ AggDone
  /\ \E i \in AggIdx :
       /\ ~IsLocal(aggHosts[i]) /\ FailedProbe(i)
       /\ AggSettled[i].synthetic
       /\ aggReport.unhealthy_count >= 1

\* C15: every check of a unified report carries the host_id, host_name and
\* host_type of the host whose probe produced it, and its service_name is that
\* host's name followed by the original service name (by Connection for a
\* rejected probe).
C15_HostIdentity ==
  AggDone =>
    /\ Len(aggReport.checks) = TotalContribution
    /\ \A i \in AggIdx : \A k \in 1..Contribution(i) :
         LET e == Segment(i)[k] IN
         /\ e.host_id = aggHosts[i].id
         /\ e.host_name = aggHosts[i].name
         /\ e.host_type = aggHosts[i].type
         /\ e.service_name =
              IF AggSettled[i].status = "rejected"
              THEN <<aggHosts[i].name, ": Connection">>
              ELSE <<aggHosts[i].name, ": ">> \o AggSettled[i].data.checks[k].service_name

\* A report with checks of two hosts of different types.
C15_Witness ==
  /\ AggDone
  /\ Len(aggHosts) = 2
  /\ aggHosts[1].type # aggHosts[2].type
  /\ Contribution(1) > 0 /\ Contribution(2) > 0
  /\ aggResp[1].kind = "report" /\ aggResp[2].kind = "report"

(* ================================================================== *)
(* Properties of the cache (SpecCache, Spec)                           *)
(* ================================================================== *)
Calls == { c \in CycleIds : cycles[c].active }

Begins(c) == ~cycles[c].active /\ cycles'[c].active

\* C5: the cache never returns an entry whose age is at least the TTL, and a
\* lookup for a key whose entry is absent or stale issues a fresh probe.
C5_NoStaleEntryReturned ==
  /\ [](/\ \A c \in Calls : \A i \in 1..Len(cycles[c].results) :
             cycles[c].results[i].cachedAge < cacheTimeout
        /\ \A i \in 1..Len(returned.results) :
             returned.results[i].cachedAge < cacheTimeout)
  /\ [][ \A c \in CycleIds :
           Begins(c) =>
             \A i \in 1..Len(cycles'[c].keys) :
               LET key == cycles'[c].keys[i] IN
               (key # NoKey /\ (key \notin DOMAIN cache
                                  \/ now - cache[key].timestamp >= cacheTimeout))
                 => cycles'[c].results[i].status = "pending" ]_vars

\* A call that found an entry exactly cacheTimeout old and sent the GET again.
C5_Witness ==
  \E c \in Calls : \E i \in 1..Len(cycles[c].results) :
    /\ cycles[c].results[i].status = "pending"
    /\ cycles[c].keys[i] \in DOMAIN cache
    /\ cycles[c].startedAt - cache[cycles[c].keys[i]].timestamp = cacheTimeout

\* C6: a getAllHealthChecks call made within the TTL window of a completed
\* one, with no host added, updated or removed in between, issues no probe.
\* Stated for the call made in the very step after the first one returned.
C6_SecondCallProbesNothing ==
  [][ ( /\ returned.rep.kind = "report"
        /\ returned.endpoint = EndpointAll
        /\ now - returned.startedAt < cacheTimeout )
      => \A c \in CycleIds : ~Begins(c) ]_vars

(* ================================================================== *)
(* Properties of the host API (SpecHosts, Spec)                        *)
(* ================================================================== *)
Succeeded == response.code \in {200, 201}

KeysOf(c, hostId) == { k \in DOMAIN c : StartsWith(k, KeyPrefix(hostId)) }

\* C7: when a successful add, update or remove of host id X returns, the cache
\* holds no entry scoped to X, and the answer of a probe of X that was sent
\* before the mutation is not stored afterwards, so that the next aggregation
\* probes X afresh.
C7_MutationInvalidatesCache ==
  /\ [](Succeeded => KeysOf(cache, response.id) = {})
  /\ [][ \A c \in Calls : \A i \in 1..Len(cycles[c].results) : \A resp \in ProbeAnswers :
           (ProbeReturn(c, i, resp) /\ cycles[c].snap[i].h.id \in cycles[c].mut)
             => KeysOf(cache', cycles[c].snap[i].h.id) = {} ]_vars

\* C8: after DELETE of host id X succeeds, an aggregation started afterwards
\* contains no check tagged with host_id X and no hosts-summary entry with id X.
\* Stated for the call made in the very step after the DELETE.
C8_DeletedHostExcluded ==
  returned.rep.kind = "report" =>
    \A x \in returned.del :
      /\ \A i \in 1..Len(returned.rep.checks) : returned.rep.checks[i].host_id # x
      /\ \A i \in 1..Len(returned.rep.hosts) : returned.rep.hosts[i].id # x

\* C9: no two hosts of the registry have the same id, and addHost with an id
\* that is already present is rejected.
C9_UniqueIds ==
  /\ \A i, j \in 1..Len(registry) : i # j => registry[i].id # registry[j].id
  /\ (response.op = "POST" /\ response.code = 201)
       => \A i \in 1..(Len(registry) - 1) : registry[i].id # response.id

\* C10: updateHost or removeHost with an id that is not in the registry reports
\* not-found (404) and leaves the registry and the cache unchanged.
C10_UnknownIdNotFound ==
  [][ (response'.op \in {"PUT", "DELETE"} /\ FindIndex(registry, response'.id) = 0)
      => (response'.code = 404 /\ registry' = registry /\ cache' = cache) ]_vars

\* A 404 answered while the registry and the cache hold something to lose.
C10_Witness ==
  /\ response.code = 404
  /\ registry # <<>>
  /\ DOMAIN cache # {}

(* ================================================================== *)
(* Properties of the startup (SpecBoot)                                *)
(* ================================================================== *)
RemovedBy(id) == response'.op = "DELETE" /\ response'.code = 200 /\ response'.id = id

\* C11: a host that is in the registry stays in it until removeHost is called
\* with its id: no other step, the resumption of the startup load included,
\* removes or replaces it.
C11_HostStaysUntilRemoved ==
  [][ \A i \in 1..Len(registry) :
        ~RemovedBy(registry[i].id)
          => \E j \in 1..Len(registry') : registry'[j].id = registry[i].id ]_vars

(* ================================================================== *)
(* Properties of the streams (SpecStream)                              *)
(* ================================================================== *)
HealthSubs == { s \in SubIds : subs[s].kind = "health" }

Leaves(s) == subs[s].connected /\ ~subs'[s].connected

\* C16: after a subscriber of /api/health/stream disconnects, no write is
\* attempted on its channel, aggregations already in flight included.
C16_NoWriteAfterDisconnect == \A s \in HealthSubs : ~subs[s].late

\* C17: when a health-stream subscriber disconnects its interval timer is
\* cleared and never fires again (no sendHealthUpdate starts for it), and at
\* every moment the live timers are those of the connected subscribers.
C17_TimersAreSubscribers ==
  /\ [](\A s \in SubIds : subs[s].timer <=> (s \in HealthSubs /\ subs[s].connected))
  /\ [][ \A s \in HealthSubs :
           /\ Leaves(s) => ~subs'[s].timer
           /\ ~subs[s].connected => subs'[s].inflight <= subs[s].inflight ]_vars

\* A subscriber gone with an aggregation still in flight, next to a connected one.
C17_Witness ==
  \E s, t \in HealthSubs :
    /\ ~subs[s].connected /\ ~subs[s].timer /\ subs[s].inflight > 0
    /\ subs[t].connected /\ subs[t].timer

\* C18: a new health-stream subscription starts one aggregation on connect and
\* one on every interval tick while it is connected, and each aggregation that
\* completes while the subscriber is connected writes exactly one event.
C18_OneSnapshotPerAggregation ==
  [][ \A s \in SubIds :
        /\ (subs[s].kind = "none" /\ subs'[s].kind = "health")
             => (subs'[s].inflight = 1 /\ subs'[s].timer /\ subs'[s].writes = 0)
        /\ TimerFires(s) => (subs[s].connected /\ subs'[s].inflight = subs[s].inflight + 1
                               /\ subs'[s].writes = subs[s].writes)
        /\ (s \in HealthSubs /\ subs[s].connected /\ subs'[s].inflight < subs[s].inflight)
             => (subs'[s].inflight = subs[s].inflight - 1
                   /\ subs'[s].writes = subs[s].writes + 1) ]_vars

\* The initial snapshot and the one of a tick were both written.
C18_Witness ==
  \E s \in HealthSubs :
    subs[s].connected /\ subs[s].writes = 2 /\ subs[s].inflight = 0 /\ ~subs[s].late

\* C19: the disconnect of one subscriber stops its own timer and subprocess
\* only: every other connection keeps its timer and its running subprocess.
C19_DisconnectIsLocal ==
  [][ \A s \in SubIds :
        Leaves(s) => \A t \in SubIds \ {s} :
                       /\ subs'[t].timer = subs[t].timer
                       /\ subs'[t].proc = subs[t].proc
                       /\ subs'[t] = subs[t] ]_vars

\* A log subscriber left, its subprocess killed, while a health timer lives on.
C19_Witness ==
  \E s, t \in SubIds :
    /\ subs[s].kind = "log" /\ subs[s].proc = "killed"
    /\ subs[t].kind = "health" /\ subs[t].timer /\ subs[t].connected

(* ================================================================== *)
(* Properties of getServiceLogs (SpecLogs)                             *)
(* ================================================================== *)
LogDone == logResult # NoLogResult

SourcesOf(result) == { result.sources[i].source : i \in 1..Len(result.sources) }

AttemptsOf(result) == { result.attempts[i] : i \in 1..Len(result.attempts) }

Supported == ToLowerCase(logCall.service) \in supportedServices

DockerYields == GetContainerName(logCall.service) # "" /\ logCall.docker # "error"

FileYields == logCall.file # "error"

\* C20: with source 'auto' the order is container, file, synthetic: the file
\* is read only if the container gave no result and after it, synthetic data is
\* produced only if neither gave one and the service is manager or agent, a
\* successful result holds exactly one source, and in every other case the
\* call fails.
C20_AutoFallbackOrder ==
  (LogDone /\ logCall.source = "auto") =>
    /\ "file" \in AttemptsOf(logResult) => "docker" \notin SourcesOf(logResult)
    /\ logResult.attempts \in { <<>>, <<"docker">>, <<"file">>, <<"docker", "file">> }
    /\ "mock" \in SourcesOf(logResult) =>
         /\ SourcesOf(logResult) = {"mock"}
         /\ ~DockerYields /\ ~FileYields
         /\ ToLowerCase(logCall.service) \in MockServices
    /\ logResult.kind = "returned" => Len(logResult.sources) = 1
    /\ logResult.kind = "returned" <=>
         (Supported /\ (DockerYields \/ FileYields
                          \/ ToLowerCase(logCall.service) \in MockServices))
    /\ (Supported /\ DockerYields) => SourcesOf(logResult) = {"docker"}
    /\ (Supported /\ ~DockerYields /\ FileYields) => SourcesOf(logResult) = {"file"}

\* The container read failed, the file read failed, and manager logs were
\* synthesized.
C20_Witness ==
  /\ LogDone
  /\ logCall.source = "auto"
  /\ logCall.service = "Manager"
  /\ logCall.file = "error"
  /\ logResult.attempts = <<"file">>
  /\ SourcesOf(logResult) = {"mock"}

\* C21: a call with an explicit source ('file' or 'docker') starts reads of
\* that source only, fails when that source gives nothing, and never returns
\* mock data, for every supported service.
ExplicitSource == logCall.source \in {"file", "docker"}

SourceUnavailable ==
  IF logCall.source = "docker" THEN ~DockerYields ELSE ~FileYields

C21_ExplicitSourceOnly ==
  (LogDone /\ Supported /\ ExplicitSource) =>
    /\ AttemptsOf(logResult) \subseteq {logCall.source}
    /\ SourcesOf(logResult) \subseteq {logCall.source}
    /\ SourceUnavailable => logResult.kind = "nologs"

\* C22: the call fails with the No-logs-available error exactly when no
\* source that was tried resolved and the service has no mock fallback, and
\* the error then lists one detail per source that was attempted.
Mockable == ToLowerCase(logCall.service) \in MockServices

C22_NoLogsError ==
  (LogDone /\ Supported) =>
    /\ logResult.kind = "nologs" <=>
         /\ ~Mockable
         /\ TryDocker(logCall.source) => ~DockerYields
         /\ (logCall.source # "docker") => ~FileYields
    /\ logResult.kind = "nologs" =>
         /\ Len(logResult.attempts) > 0
         /\ logResult.errors = logResult.attempts

C22_Witness ==
  /\ logResult.kind = "nologs"
  /\ logCall.source = "auto"
  /\ logResult.errors = <<"docker", "file">>

\* C27: on every log stream a disconnect kills the follower process unless it
\* has exited, and no follower process is still running once its subscriber
\* is gone.
LogSubs == { s \in SubIds : subs[s].kind = "log" }

C27_FollowerKilledOnDisconnect ==
  /\ [](\A s \in LogSubs : ~subs[s].connected => subs[s].proc # "running")
  /\ [][\A s \in SubIds :
          (subs[s].kind = "log" /\ Leaves(s)) =>
             subs'[s].proc \in IF subs[s].proc = "running"
                                THEN {"killed", "closed"}
                                ELSE {subs[s].proc}]_vars

C27_Witness ==
  \E s \in LogSubs : ~subs[s].connected /\ subs[s].proc = "killed" /\ subs[s].writes > 0

\* C28: in a unified report the hosts summary lists the enabled hosts in
\* registry order, and the checks of a host listed earlier come before the
\* checks of a host listed later, whichever probe settled last.
Listed == HostsOf(GetEnabledHosts(registry))

\* The checks can be read off host by host, going down the list of hosts.
RECURSIVE InListingOrder(_, _)
InListingOrder(checks, hosts) ==
  IF checks = <<>> THEN TRUE
  ELSE IF hosts = <<>> THEN FALSE
  ELSE IF Head(checks).host_id = Head(hosts).id
       THEN InListingOrder(Tail(checks), hosts)
       ELSE InListingOrder(checks, Tail(hosts))

C28_RegistryOrder ==
  returned.rep.kind = "report" =>
    LET rep == returned.rep IN
    /\ Len(rep.hosts) = Len(Listed)
    /\ \A i \in 1..Len(Listed) :
         rep.hosts[i].id = Listed[i].id /\ rep.hosts[i].name = Listed[i].name
    /\ InListingOrder(rep.checks, Listed)

\* The remote host is listed second and its answer was stored before the
\* instant at which the call returned: the probe of the first host settled last.
C28_Witness ==
  /\ registry = <<LocalHost, RemoteHost>>
  /\ returned.rep.kind = "report"
  /\ returned.results[2].cachedAge = -1
  /\ ~returned.results[2].synthetic
  /\ CacheKey(RemoteHost.id, EndpointAll) \in DOMAIN cache
  /\ returned.startedAt <= cache[CacheKey(RemoteHost.id, EndpointAll)].timestamp
  /\ cache[CacheKey(RemoteHost.id, EndpointAll)].timestamp < now
  /\ Len(returned.rep.checks) = 2
  /\ returned.rep.checks[1].host_id = LocalHost.id
  /\ returned.rep.checks[2].host_id = RemoteHost.id

\* C29: every aggregation call eventually completes, and it completes by
\* returning a report, remote hosts that never answer (timeouts) included.
Completes(c) == cycles[c].active /\ ~cycles'[c].active

C29_CycleTerminates == \A c \in CycleIds : cycles[c].active ~> ~cycles[c].active

C29_CycleReturnsReport ==
  /\ C29_CycleTerminates
  /\ [][\A c \in CycleIds : Completes(c) => returned'.rep.kind = "report"]_vars

\* C23: two getMockServiceLogs calls for the same service and line count
\* return the same levels and the same message texts, tagged source 'mock'.
LevelsOf(run) == [k \in 1..Len(run.logs) |-> run.logs[k].level]

TextsOf(run) == [k \in 1..Len(run.logs) |-> run.logs[k].message]

C23_MockDeterministic ==
  /\ \A r \in 1..Len(mockRuns.runs) : mockRuns.runs[r].source = "mock"
  /\ Len(mockRuns.runs) = 2 =>
       /\ LevelsOf(mockRuns.runs[1]) = LevelsOf(mockRuns.runs[2])
       /\ TextsOf(mockRuns.runs[1]) = TextsOf(mockRuns.runs[2])

\* C24: with regex and caseSensitive both false, the search returns exactly
\* the retrieved lines whose message contains the query as a substring when
\* case is ignored, in their order, and total_matches is their number.
SearchDone == searchResult # NoSearchResult

ContainsIgnoringCase(message, query) ==
  \E off \in 0..(Len(message) - Len(query)) :
    \A k \in 1..Len(query) : LowerChar(message[off + k]) = LowerChar(query[k])

C24_SubstringSearch ==
  (SearchDone /\ searchResult.code = 200 /\ ~searchCall.regex /\ ~searchCall.caseSensitive) =>
    LET Hit(log) == ContainsIgnoringCase(log.message, searchCall.query.text) IN
    /\ searchResult.results = SelectSeq(searchResult.retrieved, Hit)
    /\ searchResult.total_matches = Len(SelectSeq(searchResult.retrieved, Hit))

\* The query "a" finds the line "AB" and leaves out the line "b".
C24_Witness ==
  /\ searchResult.code = 200
  /\ ~searchCall.regex /\ ~searchCall.caseSensitive
  /\ searchCall.query.text = <<"a">>
  /\ searchCall.logs = << <<"A", "B">>, <<"b">> >>
  /\ searchResult.total_matches = 1
  /\ searchResult.results[1].message = <<"A", "B">>

\* C25: with regex true a line is returned if and only if the expression
\* matches its message, whatever lines were tested before it.
ExpressionMatches(message) ==
  \E off \in 0..(Len(message) - Len(searchCall.query.text)) :
    HasAt(message, searchCall.query.text, off, ~searchCall.caseSensitive)

C25_RegexSearch ==
  (SearchDone /\ searchResult.code = 200 /\ searchCall.regex) =>
    LET Hit(log) == ExpressionMatches(log.message) IN
    searchResult.results = SelectSeq(searchResult.retrieved, Hit)

\* C26: a search request whose query is missing or empty is answered 400 and
\* no read of a log source is started for it.
C26_MissingQueryRejected ==
  (SearchDone /\ (~searchCall.query.present \/ Len(searchCall.query.text) = 0)) =>
    /\ searchResult.code = 400
    /\ searchResult.reads = <<>>

C26_Witness ==
  /\ searchResult.code = 400
  /\ searchCall.query.present
  /\ searchCall.service = "etcd"
  /\ searchCall.docker = "logs"

\* C30: every element of the array getGpuDetails returns carries the id and
\* name of the host whose probe gave it, and its id is that host's id, then
\* '-gpu-', then the GPU's own id (0 when the GPU has none).
GpuDone == gpuResult # NoGpuResult

C30_GpuTagged ==
  GpuDone =>
    \A k \in 1..Len(gpuResult.gpus) :
      LET e == gpuResult.gpus[k]
          h == registry[e.from]
      IN /\ h.enabled
         /\ e.host_id = h.id
         /\ e.host_name = h.name
         /\ StartsWith(e.id, h.id \o <<"-gpu-">>)
         /\ Len(e.id) = Len(h.id) + 2
         /\ e.id[Len(e.id)] =
              IF "id" \in DOMAIN e.gpu THEN ToString(e.gpu.id) ELSE "0"

\* Two hosts contribute: the elements carry different host ids, one of them
\* for a GPU whose own id is 1.
C30_Witness ==
  /\ GpuDone
  /\ \E j, k \in 1..Len(gpuResult.gpus) :
       /\ gpuResult.gpus[j].host_id # gpuResult.gpus[k].host_id
       /\ "id" \in DOMAIN gpuResult.gpus[k].gpu
       /\ gpuResult.gpus[k].gpu.id = 1
       /\ gpuResult.gpus[k].id = GpuHost.id \o <<"-gpu-", "1">>

\* C31: the answer of a probe of host X that was in flight while X was updated
\* or removed is not written to the cache when it arrives, so that no later
\* aggregation is served X's pre-mutation payload from the cache.
SentBeforeMutation(c, i) == cycles[c].snap[i].h.id \in cycles[c].mut

C31_LateAnswerNotStored ==
  [][ \A c \in Calls : \A i \in 1..Len(cycles[c].results) : \A resp \in ProbeAnswers :
        (ProbeReturn(c, i, resp) /\ cycles[c].keys[i] # NoKey /\ SentBeforeMutation(c, i))
          => LET key == cycles[c].keys[i] IN
             /\ key \in DOMAIN cache' => key \in DOMAIN cache
             /\ key \in DOMAIN cache => cache'[key] = cache[key] ]_vars

\* C32: clearCache(hostId), as a successful PUT or DELETE of that id calls it,
\* removes the entries of that host only: the entries of every other host id
\* stay as they were, ids that begin with hostId included.
C32_ClearCacheScoped ==
  [][ (response'.op \in {"PUT", "DELETE"} /\ response'.code = 200) =>
        \A y \in RequestIds \ {response'.id} :
          LET key == CacheKey(y, EndpointAll) IN
          key \in DOMAIN cache => (key \in DOMAIN cache' /\ cache'[key] = cache[key]) ]_vars

\* C33: in every unified report total_checks is the sum of healthy_count,
\* unhealthy_count, degraded_count and unknown_count, whatever the hosts
\* reported and whichever hosts failed.
C33_TotalIsSumOfCounts ==
  aggReport.kind = "report" =>
    aggReport.total_checks =
      aggReport.healthy_count + aggReport.unhealthy_count
        + aggReport.degraded_count + aggReport.unknown_count

\* C34: a failed remote probe is never written to the cache: the cache holds
\* only payloads of answers that arrived, a failure leaves the cache as it
\* was, and a call takes an outcome from the cache only when a fresh entry of
\* an answer exists, so that a host whose probe failed is probed again.
Fails(c, i) ==
  /\ cycles[c].active
  /\ i \in 1..Len(cycles[c].results)
  /\ cycles[c].results[i].status = "pending"
  /\ cycles[c].keys[i] # NoKey
  /\ \/ cycles'[c].active /\ cycles'[c].results[i].synthetic
     \/ ~cycles'[c].active /\ returned'.results[i].synthetic

C34_FailureNotCached ==
  /\ [](\A k \in DOMAIN cache :
          \A h \in {LocalHost, RemoteHost} : cache[k].data # SyntheticFailure(h))
  /\ [][ \A c \in CycleIds : \A i \in 1..MaxRegistry : Fails(c, i) => cache' = cache ]_vars
  /\ [][ \A c \in CycleIds :
          Begins(c) =>
            \A i \in 1..Len(cycles'[c].results) :
              cycles'[c].results[i].status # "pending" =>
                /\ ~cycles'[c].results[i].synthetic
                /\ cycles'[c].keys[i] \in DOMAIN cache
                /\ now - cache[cycles'[c].keys[i]].timestamp < cacheTimeout ]_vars

\* A probe failed while the cache held an older answer of the same host: the
\* entry is still the older one.
C34_Witness ==
  /\ returned.rep.kind = "report"
  /\ \E i \in 1..Len(returned.results) : returned.results[i].synthetic
  /\ CacheKey(RemoteHost.id, EndpointAll) \in DOMAIN cache
  /\ cache[CacheKey(RemoteHost.id, EndpointAll)].timestamp < now
  /\ ~cache[CacheKey(RemoteHost.id, EndpointAll)].isNull

\* C35: two calls in flight that both missed on the same cache key both send
\* the GET; the write of an answer changes that key's entry only; and the
\* entry is each time the answer that just arrived, so that after both the
\* cache holds the answer that arrived last.
PendingOn(c, key) ==
  /\ cycles[c].active
  /\ \E i \in 1..Len(cycles[c].keys) :
       cycles[c].keys[i] = key /\ cycles[c].results[i].status = "pending"

Arrives(c, i) ==
  /\ cycles[c].active
  /\ i \in 1..Len(cycles[c].results)
  /\ cycles[c].results[i].status = "pending"
  /\ cycles[c].keys[i] # NoKey
  /\ \/ cycles'[c].active /\ cycles'[c].results[i].status = "fulfilled"
                          /\ ~cycles'[c].results[i].synthetic
     \/ ~cycles'[c].active /\ ~returned'.results[i].synthetic

Arrived(c, i) == IF cycles'[c].active THEN cycles'[c].results[i] ELSE returned'.results[i]

C35_LastWriterWins ==
  /\ [][ \A c \in RaceIds :
          Begins(c) =>
            \A i \in 1..Len(cycles'[c].keys) :
              LET key == cycles'[c].keys[i] IN
              (key # NoKey /\ ~CacheHit(cache, key, now)) =>
                cycles'[c].results[i].status = "pending" ]_vars
  /\ [][ \A c \in RaceIds : \A i \in 1..MaxRegistry :
          Arrives(c, i) =>
            LET key == cycles[c].keys[i] IN
            /\ DOMAIN cache' = DOMAIN cache \cup {key}
            /\ \A k \in DOMAIN cache \ {key} : cache'[k] = cache[k]
            /\ cache'[key].timestamp = now
            /\ cache'[key].isNull = Arrived(c, i).isNull
            /\ cache'[key].data = Arrived(c, i).data ]_vars

\* Two calls missed on the key of the remote host and both sent the GET; the
\* answer to one has just been stored, after both were sent, while the answer
\* to the other is still awaited.
C35_Witness ==
  \E c, d \in RaceIds :
    LET key == CacheKey(RemoteHost.id, EndpointAll) IN
    /\ c # d
    /\ PendingOn(d, key)
    /\ ~cycles[c].active
    /\ returned.rep.kind = "report"
    /\ returned.startedAt <= cycles[d].startedAt
    /\ key \in DOMAIN cache
    /\ cache[key].timestamp = now
    /\ cycles[d].startedAt < now

\* C38: getGpuDetails returns elements only for GPUs reported by hosts that
\* answered: a GPU host whose GET failed contributes no element to the array
\* returned.
GpuCallFailed(ref) ==
  /\ ~IsLocal(registry[ref])
  /\ gpuCall[ref].kind = "error"

C38_FailedHostNoElement ==
  GpuDone =>
    \A k \in 1..Len(gpuResult.gpus) : ~GpuCallFailed(gpuResult.gpus[k].from)

\* C37: only hosts with enabled = true are probed and reported.  A call reads
\* the registry once, when it is made: the hosts it probes or takes from the
\* cache are the hosts enabled at that moment, in the registry's order; the
\* hosts summary of its report lists those hosts and no other, and every check
\* carries the id of one of them; a host disabled by a successful PUT is not
\* among the hosts of a call made afterwards.
RefsOf(entries) == [ i \in 1..Len(entries) |-> entries[i].ref ]

IdsOf(entries) == [ i \in 1..Len(entries) |-> entries[i].h.id ]

ReportedIds(rep) == [ i \in 1..Len(rep.hosts) |-> rep.hosts[i].id ]

CheckedIds(rep) == { rep.checks[k].host_id : k \in 1..Len(rep.checks) }

Range(seq) == { seq[i] : i \in 1..Len(seq) }

ReportsOnly(rep, entries) ==
  rep.kind = "report" =>
    /\ ReportedIds(rep) = IdsOf(entries)
    /\ CheckedIds(rep) \subseteq Range(IdsOf(entries))

ReturnsAtOnce == returned'.rep.kind # "none" /\ cycles' = cycles

Disabled == { i \in 1..Len(registry) : ~registry[i].enabled }

C37_OnlyEnabledHosts ==
  /\ [](\A c \in Calls : \A i \in 1..Len(cycles[c].snap) :
          LET e == cycles[c].snap[i] IN
          e.ref # 0 => (registry[e.ref].enabled \/ e.h.id \in cycles[c].mut))
  /\ [][ \A c \in CycleIds :
           /\ Begins(c) =>
                /\ cycles'[c].snap = GetEnabledHosts(registry)
                /\ Range(RefsOf(cycles'[c].snap)) \cap Disabled = {}
                /\ Len(cycles'[c].results) = Len(cycles'[c].snap)
           /\ (cycles[c].active /\ ~cycles'[c].active) =>
                ReportsOnly(returned'.rep, cycles[c].snap)
           /\ ReturnsAtOnce => ReportsOnly(returned'.rep, GetEnabledHosts(registry)) ]_vars

\* A report that lists a host and leaves out a disabled host of the registry.
C37_Witness ==
  /\ returned.rep.kind = "report"
  /\ Len(returned.rep.hosts) >= 1
  /\ \E i \in Disabled :
       /\ registry[i].id \notin Range(ReportedIds(returned.rep))
       /\ registry[i].id \notin CheckedIds(returned.rep)

\* C36: on one health stream the snapshots are written in the order in which
\* their aggregation calls were started: the snapshot of an earlier tick is
\* never written after the snapshot of a later tick, also when calls overlap.
C36_SnapshotsInStartOrder ==
  \A j, k \in 1..Len(healthStream.written) :
    j < k => healthStream.written[j] < healthStream.written[k]

\* C39: extractLogLevel returns the level of the first keyword group, in the
\* order FATAL/CRITICAL, ERROR/ERR, WARN/WARNING, INFO/INFORMATION, DEBUG/DBG,
\* TRACE/TRC, of which a keyword stands in the line as a whole word, in any
\* case and at any place, and INFO when the line has no keyword.
LevelDone == levelCall.level # ""

KeywordGroups ==
  << [ level |-> "FATAL", words |-> { <<"F", "A", "T", "A", "L">>, <<"C", "R", "I", "T", "I", "C", "A", "L">> } ],
     [ level |-> "ERROR", words |-> { <<"E", "R", "R", "O", "R">>, <<"E", "R", "R">> } ],
     [ level |-> "WARN", words |-> { <<"W", "A", "R", "N">>, <<"W", "A", "R", "N", "I", "N", "G">> } ],
     [ level |-> "INFO", words |-> { <<"I", "N", "F", "O">>, <<"I", "N", "F", "O", "R", "M", "A", "T", "I", "O", "N">> } ],
     [ level |-> "DEBUG", words |-> { <<"D", "E", "B", "U", "G">>, <<"D", "B", "G">> } ],
     [ level |-> "TRACE", words |-> { <<"T", "R", "A", "C", "E">>, <<"T", "R", "C">> } ] >>

IsWordAt(line, a, b) ==
  /\ a <= b
  /\ \A k \in a..b : IsWordChar(line[k])
  /\ a = 1 \/ ~IsWordChar(line[a - 1])
  /\ b = Len(line) \/ ~IsWordChar(line[b + 1])

SameWord(w, keyword) ==
  /\ Len(w) = Len(keyword)
  /\ \A k \in 1..Len(w) : Canonicalize(w[k]) = keyword[k]

GroupPresent(line, g) ==
  \E a \in 1..Len(line), keyword \in KeywordGroups[g].words :
    LET b == a + Len(keyword) - 1 IN
    /\ b <= Len(line)
    /\ IsWordAt(line, a, b)
    /\ SameWord(SubSeq(line, a, b), keyword)

C39_HighestPriorityLevel ==
  LevelDone =>
    LET present == { g \in 1..Len(KeywordGroups) : GroupPresent(levelCall.line, g) } IN
    IF present = {} THEN levelCall.level = "INFO"
    ELSE levelCall.level =
           KeywordGroups[CHOOSE g \in present : \A h \in present : g <= h].level

\* 'warn Error': the keyword of the later group stands first, ERROR is returned.
C39_Witness ==
  /\ LevelDone
  /\ levelCall.line = <<"w", "a", "r", "n">> \o <<" ">> \o <<"E", "r", "r", "o", "r">>
  /\ levelCall.level = "ERROR"

\* C40: after its initial load the useHealthData hook starts fetches on its
\* own only on ticks of its refresh interval: at least refreshInterval lies
\* between two such fetches, and a fetch that completes does not start another.
StartsFetch == hook'.fetches > hook.fetches /\ hook'.cause # "refreshData"

C40_FetchesOnTicksOnly ==
  [][ (hook.mounted /\ StartsFetch) =>
        /\ hook.timer = hook.refreshInterval
        /\ hook.sinceAuto >= hook.refreshInterval
        /\ hook.pending \subseteq hook'.pending
        /\ hook'.healthData = hook.healthData ]_vars

====
